---------------------------- MODULE Spec2Model ----------------------------
(***************************************************************************)
(* Finance Manager CLI: the Account of src/src/finance_v2_6.cpp (calendar  *)
(* arithmetic, escaped record codec, ledger, allocation, schedule          *)
(* processing, interest accrual, save/load) and the interest engine of     *)
(* src/src/finance_v2_3.cpp with its saveToFile through a temporary file.  *)
(*                                                                         *)
(* Specifications.  Spec: the calls on the Account of finance_v2_6.cpp.    *)
(* Spec23: the interest engine of finance_v2_3.cpp.  SpecSave23: Spec23    *)
(* with saveToFile taken step by step, a crash possible between steps.     *)
(* SpecFunctions: the free functions of finance_v2_6.cpp, applied once.    *)
(* SpecSnapshot23: an Account of finance_v2_3.cpp is filled, createSnapshot *)
(* is called, schedules and interest are processed, restoreSnapshot is     *)
(* called.                                                                 *)
(*                                                                         *)
(* Representation.                                                         *)
(*  - A std::string is a sequence of one-character strings.                *)
(*  - A chrono_tp holding a local midnight is the number of its calendar   *)
(*    day, day 1 being 2023-01-01; the order of time points is the order   *)
(*    of day numbers (mktime/localtime are the conversions below).         *)
(*  - A double is a whole number of hundredths (100.00 is 10000); the      *)
(*    result of a multiplication or division is rounded to the nearest     *)
(*    hundredth, which stands for the rounding of double arithmetic.       *)
(*  - A std::map is a function whose DOMAIN is its key set; it is          *)
(*    iterated in increasing key order (StrLess).                          *)
(***************************************************************************)
EXTENDS Integers, Sequences, FiniteSets, TLC

\* balance .. settings are the fields of Account; file is the store at the
\* save path and tmpfile the one at the save path + ".tmp"; pc is the
\* position inside saveToFile of finance_v2_3.cpp ("idle" outside it);
\* ops counts the calls made; last records the last call: its
\* name, its arguments and the Account before it.  snapshot is empty or
\* holds the Snapshot s that createSnapshot of finance_v2_3.cpp returned,
\* with the Account at that moment.
VARIABLES balance, txs, schedules, allocationPct, categoryBalances,
          displayNames, interestMap, settings, file, tmpfile, pc, ops, last,
          snapshot

vars == <<balance, txs, schedules, allocationPct, categoryBalances,
          displayNames, interestMap, settings, file, tmpfile, pc, ops, last,
          snapshot>>

---------------------------------------------------------------------------
(* Characters and strings *)

\* The characters of the model in increasing order of their char value.
Alphabet ==
    <<"\n", " ", "!", "(", ")", "+", "-", ".", "/",
      "0", "1", "2", "3", "4", "5", "6", "7", "8", "9", ":",
      "A", "B", "C", "D", "E", "F", "G", "H", "I", "J", "K", "L", "M",
      "N", "O", "P", "Q", "R", "S", "T", "U", "V", "W", "X", "Y", "Z",
      "\\", "_",
      "a", "b", "c", "d", "e", "f", "g", "h", "i", "j", "k", "l", "m",
      "n", "o", "p", "q", "r", "s", "t", "u", "v", "w", "x", "y", "z",
      "|">>

\* The place of every character in Alphabet.
CharCode ==
    LET Table(al) == [c \in {al[i] : i \in 1..Len(al)} |->
                         CHOOSE i \in 1..Len(al) : al[i] = c]
    IN Table(Alphabet)

Digits == <<"0", "1", "2", "3", "4", "5", "6", "7", "8", "9">>

UpperCase == <<"A", "B", "C", "D", "E", "F", "G", "H", "I", "J", "K", "L", "M",
               "N", "O", "P", "Q", "R", "S", "T", "U", "V", "W", "X", "Y", "Z">>

LowerCase == <<"a", "b", "c", "d", "e", "f", "g", "h", "i", "j", "k", "l", "m",
               "n", "o", "p", "q", "r", "s", "t", "u", "v", "w", "x", "y", "z">>

isdigit(c) == \E i \in 1..10 : Digits[i] = c

DigitValue(c) == (CHOOSE i \in 1..10 : Digits[i] = c) - 1

isspace(c) == c \in {" ", "\n"}

isupper(c) == \E i \in 1..26 : UpperCase[i] = c

isalnum(c) == isdigit(c) \/ isupper(c) \/ (\E i \in 1..26 : LowerCase[i] = c)

tolower(c) == IF isupper(c) THEN LowerCase[CHOOSE i \in 1..26 : UpperCase[i] = c] ELSE c

\* operator< of std::string: lexicographic on char values, a proper prefix first.
RECURSIVE StrLess(_, _)
StrLess(a, b) ==
    LET Less(code, x, y) == code[x] < code[y]
    IN IF b = <<>> THEN FALSE
       ELSE IF a = <<>> THEN TRUE
       ELSE IF a[1] # b[1] THEN Less(CharCode, a[1], b[1])
       ELSE StrLess(Tail(a), Tail(b))

\* The keys of a std::map in iteration order.
RECURSIVE SortedKeys(_)
SortedKeys(S) ==
    IF S = {} THEN <<>>
    ELSE LET k == CHOOSE x \in S : \A y \in S \ {x} : StrLess(x, y)
         IN <<k>> \o SortedKeys(S \ {k})

StartsWith(s, p) == Len(s) >= Len(p) /\ SubSeq(s, 1, Len(p)) = p

RECURSIVE SumSeq(_)
SumSeq(s) == IF s = <<>> THEN 0 ELSE s[1] + SumSeq(Tail(s))

\* Division of whole numbers rounded to the nearest, halves away from zero:
\* the rounding of a double product or quotient at the model's resolution.
RoundDiv(a, b) ==
    LET n == IF b < 0 THEN -a ELSE a
        d == IF b < 0 THEN -b ELSE b
    IN IF n >= 0 THEN (2 * n + d) \div (2 * d)
                 ELSE -((2 * (-n) + d) \div (2 * d))

---------------------------------------------------------------------------
(* Time and date helpers *)

Years == 2023..2027

\* daysInMonth: the number of days of a month, leap years included.
daysInMonth(year, month) ==
    LET mdays == <<31, 28, 31, 30, 31, 30, 31, 31, 30, 31, 30, 31>>
        leap == year % 4 = 0 /\ (year % 100 # 0 \/ year % 400 = 0)
    IN IF month = 2 THEN 28 + (IF leap THEN 1 ELSE 0) ELSE mdays[month]

RECURSIVE DaysBeforeMonth(_, _)
DaysBeforeMonth(year, month) ==
    IF month = 1 THEN 0
    ELSE DaysBeforeMonth(year, month - 1) + daysInMonth(year, month - 1)

RECURSIVE DaysBeforeYear(_)
DaysBeforeYear(year) ==
    IF year = 2023 THEN 0
    ELSE DaysBeforeYear(year - 1) + DaysBeforeMonth(year - 1, 12) + 31

MonthStart == [y \in Years |-> [m \in 1..12 |-> DaysBeforeYear(y) + DaysBeforeMonth(y, m)]]

LastDay == MonthStart[2027][12] + 31

\* mktime of local midnight of year-month-mday; an mday outside the month
\* is carried into the neighbouring months, as mktime normalises it.
mktime(year, month, mday) == MonthStart[year][month] + mday

\* localtime: the calendar fields of every time point.  YearOf and MonthOf
\* are the year that holds day n and the month of year y that holds it,
\* ms being MonthStart.
CivilTable ==
    LET YearOf(ms, n) == CHOOSE yy \in Years : ms[yy][1] < n /\ n <= ms[yy][12] + 31
        MonthOf(ms, y, n) ==
            CHOOSE mm \in 1..12 : ms[y][mm] < n /\ n <= ms[y][mm] + daysInMonth(y, mm)
        TmOf(ms, y, m, n) == [year |-> y, mon |-> m, mday |-> n - ms[y][m]]
        TmInYear(ms, y, n) == TmOf(ms, y, MonthOf(ms, y, n), n)
        TableOf(ms, lastDay) == [n \in 1..lastDay |-> TmInYear(ms, YearOf(ms, n), n)]
    IN TableOf(MonthStart, LastDay)

safeLocaltime(tt) == CivilTable[tt]

Min(a, b) == IF a <= b THEN a ELSE b

Max(a, b) == IF a >= b THEN a ELSE b

\* Integer division and remainder of C++: the quotient is truncated toward zero.
CDiv(a, b) == IF a >= 0 THEN a \div b ELSE -((-a) \div b)

CRem(a, b) == a - b * CDiv(a, b)

\* addDays with the days subtracted.
addDaysBack(tp, days) ==
    LET FromTm(t) == mktime(t.year, t.mon, t.mday - days)
    IN FromTm(safeLocaltime(tp))

addDays(tp, days) ==
    LET FromTm(t) == mktime(t.year, t.mon, t.mday + days)
    IN FromTm(safeLocaltime(tp))

\* addMonths going the other way.
addMonthsBack(tp, months) ==
    LET Clamped(newYear, newMonth, day) ==
            mktime(newYear, newMonth, Min(day, daysInMonth(newYear, newMonth)))
        FromTm(t) ==
            LET totalMonths == t.mon - 1 - months
                newYear0 == t.year + CDiv(totalMonths, 12)
                newMonth0 == CRem(totalMonths, 12) + 1
            IN IF newMonth0 <= 0 THEN Clamped(newYear0 - 1, newMonth0 + 12, t.mday)
               ELSE Clamped(newYear0, newMonth0, t.mday)
    IN FromTm(safeLocaltime(tp))

\* addMonths without useDay: the day of the month goes to mktime as it is.
addMonthsUnclamped(tp, months) ==
    LET FromTm(t) ==
            LET totalMonths == t.mon - 1 + months
                newYear0 == t.year + CDiv(totalMonths, 12)
                newMonth0 == CRem(totalMonths, 12) + 1
            IN IF newMonth0 <= 0 THEN mktime(newYear0 - 1, newMonth0 + 12, t.mday)
               ELSE mktime(newYear0, newMonth0, t.mday)
    IN FromTm(safeLocaltime(tp))

\* FromTm is addMonths after safeLocaltime, Clamped its end: useDay and
\* mktime.
addMonths(tp, months) ==
    LET Clamped(newYear, newMonth, day) ==
            mktime(newYear, newMonth, Min(day, daysInMonth(newYear, newMonth)))
        FromTm(t) ==
            LET totalMonths == t.mon - 1 + months
                newYear0 == t.year + CDiv(totalMonths, 12)
                newMonth0 == CRem(totalMonths, 12) + 1
            IN IF newMonth0 <= 0 THEN Clamped(newYear0 - 1, newMonth0 + 12, t.mday)
               ELSE Clamped(newYear0, newMonth0, t.mday)
    IN FromTm(safeLocaltime(tp))

nextMonthlyOn(from, day) ==
    LET Clamped(year, month) == mktime(year, month, Min(day, daysInMonth(year, month)))
        FromTm(t) ==
            IF t.mday < day THEN Clamped(t.year, t.mon)
            ELSE IF t.mon + 1 > 12 THEN Clamped(t.year + 1, 1)
            ELSE Clamped(t.year, t.mon + 1)
    IN FromTm(safeLocaltime(from))

\* v2.6: months counted by calendar subtraction.
monthsBetweenInclusive(start, end) ==
    LET Between(s, e) ==
            LET months == (e.year - s.year) * 12 + (e.mon - s.mon)
            IN Max(0, IF e.mday >= s.mday THEN months + 1 ELSE months)
    IN IF end < start THEN 0 ELSE Between(safeLocaltime(start), safeLocaltime(end))

---------------------------------------------------------------------------
(* Numbers and dates as text *)

RECURSIVE NatToStr(_)
NatToStr(n) ==
    IF n < 10 THEN <<Digits[n + 1]>>
    ELSE NatToStr(n \div 10) \o <<Digits[(n % 10) + 1]>>

\* operator<< of an int.
IntToStr(n) == IF n < 0 THEN <<"-">> \o NatToStr(-n) ELSE NatToStr(n)

\* operator<< of a double under fixed << setprecision(10): the two decimals
\* of the model's resolution followed by eight zeros.
FormatFixed(v) ==
    LET a == IF v < 0 THEN -v ELSE v
    IN (IF v < 0 THEN <<"-">> ELSE <<>>)
       \o NatToStr(a \div 100) \o <<".">>
       \o <<Digits[((a % 100) \div 10) + 1], Digits[(a % 10) + 1]>>
       \o <<"0", "0", "0", "0", "0", "0", "0", "0">>

RECURSIVE SkipSpaces(_)
SkipSpaces(s) == IF s # <<>> /\ isspace(s[1]) THEN SkipSpaces(Tail(s)) ELSE s

\* The longest prefix of s made of digits.
RECURSIVE DigitPrefix(_)
DigitPrefix(s) ==
    IF s # <<>> /\ isdigit(s[1]) THEN <<s[1]>> \o DigitPrefix(Tail(s)) ELSE <<>>

RECURSIVE DigitsValue(_)
DigitsValue(ds) ==
    IF ds = <<>> THEN 0
    ELSE 10 * DigitsValue(SubSeq(ds, 1, Len(ds) - 1)) + DigitValue(ds[Len(ds)])

\* std::stod on decimal text (no exponent, hex, inf or nan): leading white
\* space, an optional sign, digits, an optional point and digits; what
\* follows is ignored; no digit at all throws (ok = FALSE).  Decimals beyond
\* the model's resolution are dropped.
\* Signed is stod after the white space, Unsigned after the sign (ip are
\* the digits s1 begins with), Fraction the digits after the point (s2 is
\* the text after ip), Value the result.
stod(str) ==
    LET Value(neg, ip, fp) ==
            LET mag == 100 * DigitsValue(ip) + DigitsValue(SubSeq(fp \o <<"0", "0">>, 1, 2))
            IN IF ip = <<>> /\ fp = <<>> THEN [ok |-> FALSE, val |-> 0]
               ELSE [ok |-> TRUE, val |-> IF neg THEN -mag ELSE mag]
        Fraction(s2) == IF s2 # <<>> /\ s2[1] = "." THEN DigitPrefix(Tail(s2)) ELSE <<>>
        Unsigned(neg, s1, ip) == Value(neg, ip, Fraction(SubSeq(s1, Len(ip) + 1, Len(s1))))
        Signed(s0) ==
            IF s0 # <<>> /\ s0[1] \in {"-", "+"}
            THEN Unsigned(s0[1] = "-", Tail(s0), DigitPrefix(Tail(s0)))
            ELSE Unsigned(FALSE, s0, DigitPrefix(s0))
    IN Signed(SkipSpaces(str))

\* std::stoi: leading white space, an optional sign, digits; no digit throws.
stoi(str) ==
    LET Value(neg, ip) ==
            IF ip = <<>> THEN [ok |-> FALSE, val |-> 0]
            ELSE [ok |-> TRUE, val |-> IF neg THEN -DigitsValue(ip) ELSE DigitsValue(ip)]
        Signed(s0) ==
            IF s0 # <<>> /\ s0[1] \in {"-", "+"} THEN Value(s0[1] = "-", DigitPrefix(Tail(s0)))
            ELSE Value(FALSE, DigitPrefix(s0))
    IN Signed(SkipSpaces(str))

Pad2(n) == <<Digits[(n \div 10) + 1], Digits[(n % 10) + 1]>>

\* toDateString: strftime "%Y-%m-%d".
toDateString(tp) ==
    LET Format(t) == NatToStr(t.year) \o <<"-">> \o Pad2(t.mon) \o <<"-">> \o Pad2(t.mday)
    IN Format(safeLocaltime(tp))

\* At most the first two of the digits s begins with.
TwoDigits(s) ==
    LET FirstTwo(ds) == SubSeq(ds, 1, Min(2, Len(ds)))
    IN FirstTwo(DigitPrefix(s))

\* tryParseDate: get_time "%Y-%m-%d" after optional white space (a year of
\* four digits, a month of one or two digits in 1..12, a day of one or two
\* digits in 1..31, anything after ignored), then mktime, which carries a
\* day beyond the month's end into the next month.  Years of fewer than four
\* digits or outside the model's calendar are not among the model's inputs.
\* Year reads "%Y-" after the white space, Month "%m" (md are the digits
\* s1 begins with), DashDay "-%d" (s2 is the text after the month), Day the
\* day from its digits dd.
tryParseDate(str) ==
    LET NoDate == [ok |-> FALSE, date |-> 0]
        Day(y, m, dd) ==
            IF dd # <<>> /\ DigitsValue(dd) \in 1..31
            THEN [ok |-> TRUE, date |-> mktime(y, m, DigitsValue(dd))]
            ELSE NoDate
        DashDay(y, m, s2) ==
            IF s2 # <<>> /\ s2[1] = "-" THEN Day(y, m, TwoDigits(Tail(s2))) ELSE NoDate
        Month(y, s1, md) ==
            IF md # <<>> /\ DigitsValue(md) \in 1..12
            THEN DashDay(y, DigitsValue(md), SubSeq(s1, Len(md) + 1, Len(s1)))
            ELSE NoDate
        Year(s) ==
            IF Len(s) >= 5 /\ (\A i \in 1..4 : isdigit(s[i])) /\ s[5] = "-"
                           /\ DigitsValue(SubSeq(s, 1, 4)) \in Years
            THEN Month(DigitsValue(SubSeq(s, 1, 4)), SubSeq(s, 6, Len(s)),
                       TwoDigits(SubSeq(s, 6, Len(s))))
            ELSE NoDate
    IN IF str = <<>> THEN NoDate ELSE Year(SkipSpaces(str))

---------------------------------------------------------------------------
(* Escaping, parsing and category names *)

EscapeStep(st, s) ==
    LET c == s[st.i]
    IN [out |-> st.out \o (IF c = "\\" THEN <<"\\", "\\">>
                           ELSE IF c = "|" THEN <<"\\", "|">>
                           ELSE IF c = "\n" THEN <<"\\", "n">>
                           ELSE <<c>>),
        i |-> st.i + 1]

\* The loop of escapeForSave over the characters st.i .. hi in order, one
\* half of the range after the other.
RECURSIVE EscapeLoop(_, _, _)
EscapeLoop(st, s, hi) ==
    IF st.i > hi THEN st
    ELSE IF st.i = hi THEN EscapeStep(st, s)
    ELSE EscapeLoop(EscapeLoop(st, s, (st.i + hi) \div 2), s, hi)

escapeForSave(s) == EscapeLoop([out |-> <<>>, i |-> 1], s, Len(s)).out

\* unescapeLoaded without its case for 'n': the character after a
\* backslash is always taken as it is.
UnescapeStepPlain(st, s) ==
    LET c == s[st.i]
    IN IF c = "\\" /\ st.i + 1 <= Len(s)
       THEN [out |-> Append(st.out, s[st.i + 1]), i |-> st.i + 2]
       ELSE [out |-> Append(st.out, c), i |-> st.i + 1]

\* The body of the loop of unescapeLoaded: a backslash that is not the
\* last character is dropped and the character after it taken, 'n' as a
\* newline.
UnescapeStep(st, s) ==
    LET c == s[st.i]
    IN IF c = "\\" /\ st.i + 1 <= Len(s)
       THEN [out |-> Append(st.out, IF s[st.i + 1] = "n" THEN "\n" ELSE s[st.i + 1]),
             i |-> st.i + 2]
       ELSE [out |-> Append(st.out, c), i |-> st.i + 1]

\* The loop of unescapeLoaded over the characters st.i .. hi, in halves.
RECURSIVE UnescapeLoop(_, _, _)
UnescapeLoop(st, s, hi) ==
    IF st.i > hi THEN st
    ELSE IF st.i = hi THEN UnescapeStep(st, s)
    ELSE UnescapeLoop(UnescapeLoop(st, s, (st.i + hi) \div 2), s, hi)

unescapeLoaded(s) == UnescapeLoop([out |-> <<>>, i |-> 1], s, Len(s)).out

\* The body of the first loop of splitEscaped for the character s[st.i]:
\* the character after a backslash is kept as it is and the backslash
\* dropped, an unescaped '|' ends a part.  parts are the parts closed so
\* far, cur the one being read.
SplitStep(st, s) ==
    LET c == s[st.i]
    IN IF st.esc THEN [st EXCEPT !.cur = Append(@, c), !.esc = FALSE, !.i = @ + 1]
       ELSE IF c = "\\" THEN [st EXCEPT !.esc = TRUE, !.i = @ + 1]
       ELSE IF c = "|" THEN [st EXCEPT !.parts = Append(@, st.cur), !.cur = <<>>, !.i = @ + 1]
       ELSE [st EXCEPT !.cur = Append(@, c), !.i = @ + 1]

\* The first loop of splitEscaped over the characters st.i .. hi, in halves.
RECURSIVE SplitLoop(_, _, _)
SplitLoop(st, s, hi) ==
    IF st.i > hi THEN st
    ELSE IF st.i = hi THEN SplitStep(st, s)
    ELSE SplitLoop(SplitLoop(st, s, (st.i + hi) \div 2), s, hi)

\* The first loop of splitEscaped and the push of the last part.
SplitScan(s) ==
    LET PushLast(st) == Append(st.parts, st.cur)
    IN PushLast(SplitLoop([parts |-> <<>>, cur |-> <<>>, esc |-> FALSE, i |-> 1], s, Len(s)))

\* splitEscaped: the scan, then unescapeLoaded on every part.
splitEscaped(s) ==
    LET UnescapeAll(parts) == [i \in 1..Len(parts) |-> unescapeLoaded(parts[i])]
    IN UnescapeAll(SplitScan(s))

RECURSIVE TrimLeft(_)
TrimLeft(s) == IF s # <<>> /\ isspace(s[1]) THEN TrimLeft(Tail(s)) ELSE s

RECURSIVE TrimRight(_)
TrimRight(s) ==
    IF s # <<>> /\ isspace(s[Len(s)]) THEN TrimRight(SubSeq(s, 1, Len(s) - 1)) ELSE s

\* normalizeKey: trimmed, lower case, "other" when empty.
normalizeKey(s) ==
    LET Lower(t) == IF t = <<>> THEN <<"o", "t", "h", "e", "r">>
                    ELSE [i \in 1..Len(t) |-> tolower(t[i])]
    IN Lower(TrimRight(TrimLeft(s)))

\* The body of the second loop of sanitizeDisplayName: a run of white
\* space becomes one ' '.
CollapseStep(st, tmp) ==
    LET c == tmp[st.i]
    IN IF isspace(c)
       THEN [out |-> IF st.lastSpace THEN st.out ELSE Append(st.out, " "),
             lastSpace |-> TRUE, i |-> st.i + 1]
       ELSE [out |-> Append(st.out, c), lastSpace |-> FALSE, i |-> st.i + 1]

\* The second loop of sanitizeDisplayName over the characters st.i .. hi,
\* in halves.
RECURSIVE CollapseLoop(_, _, _)
CollapseLoop(st, s, hi) ==
    IF st.i > hi THEN st
    ELSE IF st.i = hi THEN CollapseStep(st, s)
    ELSE CollapseLoop(CollapseLoop(st, s, (st.i + hi) \div 2), s, hi)

CollapseSpaces(tmp) ==
    CollapseLoop([out |-> <<>>, lastSpace |-> FALSE, i |-> 1], tmp, Len(tmp)).out

\* sanitizeDisplayName: letters, digits and white space kept, white space
\* collapsed and trimmed, "Category" when nothing is left.
sanitizeDisplayName(s) ==
    LET OrCategory(out) ==
            IF out = <<>> THEN <<"C", "a", "t", "e", "g", "o", "r", "y">> ELSE out
    IN OrCategory(TrimRight(TrimLeft(
           CollapseSpaces(SelectSeq(s, LAMBDA c : isalnum(c) \/ isspace(c))))))

---------------------------------------------------------------------------
(* Account (finance_v2_6.cpp) *)

\* The bound of the firing loop of processSchedulesUpTo (guard < 10000 in
\* the source), scaled down.
GuardLimit == 6

EmptyMap == [k \in {} |-> 0]

Has(m, k) == k \in DOMAIN m

Put(m, k, v) == [x \in (DOMAIN m) \cup {k} |-> IF x = k THEN v ELSE m[x]]

\* m[k] of a std::map read as a value: the default when the key is absent.
Get(m, k, default) == IF Has(m, k) THEN m[k] ELSE default

\* The map after an access m[k], which inserts the default for a new key.
Touch(m, k, default) == IF Has(m, k) THEN m ELSE Put(m, k, default)

Str_Other == <<"O", "t", "h", "e", "r">>

Str_AutoAlloc == <<" ", "(", "a", "u", "t", "o", " ", "a", "l", "l", "o", "c", ")">>

Str_AutoAllocFallback ==
    <<" ", "(", "a", "u", "t", "o", " ", "a", "l", "l", "o", "c", " ",
      "f", "a", "l", "l", "b", "a", "c", "k", ")">>

Str_Scheduled == <<"S", "c", "h", "e", "d", "u", "l", "e", "d", ":", " ">>

Str_InterestMonthly ==
    <<"I", "n", "t", "e", "r", "e", "s", "t", " ", "(", "m", "o", "n", "t", "h", "l", "y", ")">>

Str_InterestAnnual ==
    <<"I", "n", "t", "e", "r", "e", "s", "t", " ", "(", "a", "n", "n", "u", "a", "l", "/",
      "c", "o", "n", "v", "e", "r", "t", "e", "d", " ", "t", "o", " ",
      "m", "o", "n", "t", "h", "l", "y", ")">>

DefaultSettings ==
    [autoSave |-> FALSE, autoProcessOnStartup |-> FALSE, language |-> <<"E", "N">>]

\* Account(): the four default categories, in all three maps.
DefaultCategories ==
    << <<<<"E", "m", "e", "r", "g", "e", "n", "c", "y">>, 2000>>,
       <<<<"E", "n", "t", "e", "r", "t", "a", "i", "n", "m", "e", "n", "t">>, 1000>>,
       <<<<"S", "a", "v", "i", "n", "g">>, 2000>>,
       <<Str_Other, 5000>> >>

NewAccount ==
    LET keys == {normalizeKey(DefaultCategories[i][1]) : i \in 1..4}
        of(k) == CHOOSE i \in 1..4 : normalizeKey(DefaultCategories[i][1]) = k
    IN [balance |-> 0,
        txs |-> <<>>,
        schedules |-> <<>>,
        allocationPct |-> [k \in keys |-> DefaultCategories[of(k)][2]],
        categoryBalances |-> [k \in keys |-> 0],
        displayNames |-> [k \in keys |-> DefaultCategories[of(k)][1]],
        interestMap |-> EmptyMap,
        settings |-> DefaultSettings]

\* Sanitized is ensureCategoryExists after sanitizeDisplayName, Keyed its
\* three inserts for the key nk of display.
ensureCategoryExists(a, displayRaw) ==
    LET Keyed(nk, display) ==
            [a EXCEPT !.displayNames = Touch(@, nk, display),
                      !.categoryBalances = Touch(@, nk, 0),
                      !.allocationPct = Touch(@, nk, 0)]
        Sanitized(display) == Keyed(normalizeKey(display), display)
    IN Sanitized(sanitizeDisplayName(displayRaw))

\* addManualTransaction without its update of the category balance.
addManualTransactionUncounted(a, date, amount, categoryRaw, note) ==
    LET Keyed(nk, catDisplay) ==
            LET names == Touch(a.displayNames, nk, catDisplay)
                t == [date |-> date, amount |-> amount, category |-> names[nk],
                      note |-> note]
            IN [a EXCEPT !.displayNames = names,
                         !.txs = Append(@, t),
                         !.balance = @ + amount,
                         !.categoryBalances = Touch(@, nk, 0)]
        Named(catDisplay) == Keyed(normalizeKey(catDisplay), catDisplay)
    IN Named(IF categoryRaw = <<>> THEN Str_Other ELSE sanitizeDisplayName(categoryRaw))

\* addManualTransaction putting the transaction at the head of the log.
addManualTransactionFirst(a, date, amount, categoryRaw, note) ==
    LET Keyed(nk, catDisplay) ==
            LET names == Touch(a.displayNames, nk, catDisplay)
                t == [date |-> date, amount |-> amount, category |-> names[nk],
                      note |-> note]
            IN [a EXCEPT !.displayNames = names,
                         !.txs = <<t>> \o @,
                         !.balance = @ + amount,
                         !.categoryBalances = Put(@, nk, Get(@, nk, 0) + amount)]
        Named(catDisplay) == Keyed(normalizeKey(catDisplay), catDisplay)
    IN Named(IF categoryRaw = <<>> THEN Str_Other ELSE sanitizeDisplayName(categoryRaw))

\* Named is addManualTransaction once catDisplay is known, Keyed once its
\* key nk is.
addManualTransaction(a, date, amount, categoryRaw, note) ==
    LET Keyed(nk, catDisplay) ==
            LET names == Touch(a.displayNames, nk, catDisplay)
                t == [date |-> date, amount |-> amount, category |-> names[nk],
                      note |-> note]
            IN [a EXCEPT !.displayNames = names,
                         !.txs = Append(@, t),
                         !.balance = @ + amount,
                         !.categoryBalances = Put(@, nk, Get(@, nk, 0) + amount)]
        Named(catDisplay) == Keyed(normalizeKey(catDisplay), catDisplay)
    IN Named(IF categoryRaw = <<>> THEN Str_Other ELSE sanitizeDisplayName(categoryRaw))

\* The loop of setAllocation over newAlloc in key order; Keyed is its body
\* for the key nk of the name dk.
RECURSIVE SetAllocationLoop(_, _, _)
SetAllocationLoop(a, newAlloc, keys) ==
    LET Keyed(nk, dk, pct) ==
            [a EXCEPT !.allocationPct = Put(@, nk, pct),
                      !.displayNames = Touch(@, nk, dk),
                      !.categoryBalances = Touch(@, nk, 0)]
        Named(dk, pct) == Keyed(normalizeKey(dk), dk, pct)
    IN IF keys = <<>> THEN a
       ELSE SetAllocationLoop(Named(sanitizeDisplayName(keys[1]), newAlloc[keys[1]]),
                              newAlloc, Tail(keys))

setAllocation(a, newAlloc) ==
    SetAllocationLoop([a EXCEPT !.allocationPct = EmptyMap], newAlloc,
                      SortedKeys(DOMAIN newAlloc))

\* totalPct of allocateAmount.
TotalPct(a) ==
    LET SumOf(m, keys) == SumSeq([i \in 1..Len(keys) |-> m[keys[i]]])
    IN SumOf(a.allocationPct, SortedKeys(DOMAIN a.allocationPct))

\* The share taken against 100 percent instead of the total of the map.
ShareOfHundred(amount, pct, totalPct) == RoundDiv(amount * pct, 10000)

\* share = amount * (p.second / totalPct)
Share(amount, pct, totalPct) == RoundDiv(amount * pct, totalPct)

\* The second loop of allocateAmount: one transaction per allocation entry.
RECURSIVE AllocateLoop(_, _, _, _, _, _)
AllocateLoop(a, keys, date, amount, note, totalPct) ==
    IF keys = <<>> THEN a
    ELSE LET k == keys[1]
             share == Share(amount, a.allocationPct[k], totalPct)
             names == Touch(a.displayNames, k, <<>>)
             catDisplay == IF names[k] = <<>> THEN k ELSE names[k]
             t == [date |-> date, amount |-> share, category |-> catDisplay,
                   note |-> note \o Str_AutoAlloc]
         IN AllocateLoop(
                [a EXCEPT !.categoryBalances = Put(@, k, Get(@, k, 0) + share),
                          !.displayNames = names,
                          !.txs = Append(@, t),
                          !.balance = @ + share],
                Tail(keys), date, amount, note, totalPct)

\* Summed is allocateAmount after its first loop, which sums totalPct;
\* Fallback posts the whole amount to "Other", nk being normalizeKey("Other").
allocateAmount(a, date, amount, note) ==
    LET Fallback(nk) ==
            LET names == Touch(a.displayNames, nk, Str_Other)
            IN [a EXCEPT !.displayNames = names,
                         !.categoryBalances = Put(@, nk, Get(@, nk, 0) + amount),
                         !.txs = Append(@, [date |-> date, amount |-> amount,
                                            category |-> names[nk],
                                            note |-> note \o Str_AutoAllocFallback]),
                         !.balance = @ + amount]
        Summed(totalPct) ==
            IF totalPct <= 0   \* totalPct <= 0.000001, below the model's resolution
            THEN Fallback(normalizeKey(Str_Other))
            ELSE AllocateLoop(a, SortedKeys(DOMAIN a.allocationPct), date, amount, note,
                              totalPct)
    IN Summed(TotalPct(a))

addSchedule(a, s) == [a EXCEPT !.schedules = Append(@, s)]

\* The validation gate of processSchedulesUpTo (and of loadFromFile).
ValidSchedule(s) ==
    /\ ~(s.type = "EveryXDays" /\ s.param <= 0)
    /\ ~(s.type = "MonthlyDay" /\ (s.param < 1 \/ s.param > 31))

\* The body of the firing loop: post, then advance nextDate.
FireOnce(a, i) ==
    LET s == a.schedules[i]
        posted == IF s.autoAllocate /\ s.amount > 0
                  THEN allocateAmount(a, s.nextDate, s.amount, Str_Scheduled \o s.note)
                  ELSE addManualTransaction(a, s.nextDate, s.amount,
                                            IF s.category = <<>> THEN Str_Other ELSE s.category,
                                            Str_Scheduled \o s.note)
        next == IF s.type = "EveryXDays" THEN addDays(s.nextDate, s.param)
                ELSE nextMonthlyOn(s.nextDate, s.param)
    IN [posted EXCEPT !.schedules[i].nextDate = next]

\* The firing loop going one firing beyond the guard limit.
RECURSIVE FireLoopOver(_, _, _, _)
FireLoopOver(a, i, upTo, guard) ==
    IF a.schedules[i].nextDate <= upTo /\ guard <= GuardLimit
    THEN FireLoopOver(FireOnce(a, i), i, upTo, guard + 1)
    ELSE a

\* The firing loop stopping one firing before the guard limit.
RECURSIVE FireLoopShort(_, _, _, _)
FireLoopShort(a, i, upTo, guard) ==
    IF a.schedules[i].nextDate <= upTo /\ guard < GuardLimit - 1
    THEN FireLoopShort(FireOnce(a, i), i, upTo, guard + 1)
    ELSE a

\* while (s.nextDate <= upTo && guard < 10000)
RECURSIVE FireLoop(_, _, _, _)
FireLoop(a, i, upTo, guard) ==
    IF a.schedules[i].nextDate <= upTo /\ guard < GuardLimit
    THEN FireLoop(FireOnce(a, i), i, upTo, guard + 1)
    ELSE a

\* The loop over the schedules without the two tests of the parameter.
RECURSIVE ScheduleLoopAll(_, _, _)
ScheduleLoopAll(a, i, upTo) ==
    IF i > Len(a.schedules) THEN a
    ELSE ScheduleLoopAll(FireLoop(a, i, upTo, 0), i + 1, upTo)

RECURSIVE ScheduleLoop(_, _, _)
ScheduleLoop(a, i, upTo) ==
    IF i > Len(a.schedules) THEN a
    ELSE IF ~ValidSchedule(a.schedules[i]) THEN ScheduleLoop(a, i + 1, upTo)
    ELSE ScheduleLoop(FireLoop(a, i, upTo, 0), i + 1, upTo)

processSchedulesUpTo(a, upTo) == ScheduleLoop(a, 1, upTo)

\* bal of applyInterestUpTo: the category's amounts in workingTxs dated up
\* to applyDate.
CategoryBalanceAt(workingTxs, nk, applyDate) ==
    SumSeq([j \in 1..Len(workingTxs) |->
               IF normalizeKey(workingTxs[j].category) = nk /\ workingTxs[j].date <= applyDate
               THEN workingTxs[j].amount ELSE 0])

\* interest = bal * monthlyRate, monthlyRate being ratePct / 100, or that
\* over 12 for an annual rate (ratePct is in hundredths of a percent).
Interest(bal, ie) ==
    IF ie.monthly THEN RoundDiv(bal * ie.ratePct, 10000)
    ELSE RoundDiv(bal * ie.ratePct, 120000)

\* The month loop of applyInterestUpTo for the entry of key nk; st is
\* [a |-> the account, w |-> workingTxs].  Step is the body for applyDate,
\* Balanced the body once bal is summed (nothing is posted on a balance
\* that is not positive or when the interest is zero), Post the posting
\* to txs and to workingTxs.
RECURSIVE MonthLoop(_, _, _, _, _)
MonthLoop(st, nk, fromDate, m, months) ==
    LET Post(ie, applyDate, interest) ==
            LET key == ie.categoryNormalized
                display == IF Has(st.a.displayNames, key) THEN st.a.displayNames[key]
                           ELSE key
                itx == [date |-> applyDate, amount |-> interest, category |-> display,
                        note |-> IF ie.monthly THEN Str_InterestMonthly
                                 ELSE Str_InterestAnnual]
            IN [a |-> [st.a EXCEPT !.txs = Append(@, itx),
                                   !.categoryBalances = Put(@, key, Get(@, key, 0) + interest),
                                   !.balance = @ + interest],
                w |-> Append(st.w, itx)]
        Balanced(ie, applyDate, bal) ==
            IF bal <= 0 \/ bal * ie.ratePct = 0 THEN st
            ELSE Post(ie, applyDate, Interest(bal, ie))
        Step(ie, applyDate) ==
            Balanced(ie, applyDate,
                     CategoryBalanceAt(st.w, ie.categoryNormalized, applyDate))
    IN IF m >= months THEN st
       ELSE MonthLoop(Step(st.a.interestMap[nk], addMonths(fromDate, m)),
                      nk, fromDate, m + 1, months)

\* The loop of applyInterestUpTo over interestMap in key order.  Body is
\* its body for the entry ie of key nk, From the body once fromDate is
\* known, Counted once months is; Advanced sets lastAppliedDate to the
\* date months later, not beyond upTo.
RECURSIVE InterestLoop(_, _, _)
InterestLoop(st, keys, upTo) ==
    LET Advanced(r, nk, adv) ==
            [r EXCEPT !.a.interestMap[nk].lastAppliedDate = IF adv > upTo THEN upTo ELSE adv]
        Counted(nk, fromDate, months) ==
            IF months <= 0 THEN st
            ELSE Advanced(MonthLoop(st, nk, fromDate, 0, months), nk,
                          addMonths(fromDate, months))
        From(nk, fromDate) == Counted(nk, fromDate, monthsBetweenInclusive(fromDate, upTo))
        Body(nk, ie) ==
            IF ie.startDate > upTo THEN st
            ELSE From(nk, IF ie.lastAppliedDate < ie.startDate THEN ie.startDate
                          ELSE ie.lastAppliedDate)
    IN IF keys = <<>> THEN st
       ELSE InterestLoop(Body(keys[1], st.a.interestMap[keys[1]]), Tail(keys), upTo)

applyInterestUpTo(a, upTo) ==
    IF DOMAIN a.interestMap = {} THEN a
    ELSE InterestLoop([a |-> a, w |-> a.txs], SortedKeys(DOMAIN a.interestMap), upTo).a

---------------------------------------------------------------------------
(* Persistence (finance_v2_6.cpp) *)

Str_BALANCE == <<"B", "A", "L", "A", "N", "C", "E", " ">>

Str_SETTINGS == <<"S", "E", "T", "T", "I", "N", "G", "S">>

Str_INTERESTS == <<"I", "N", "T", "E", "R", "E", "S", "T", "S">>

Str_ALLOCATIONS == <<"A", "L", "L", "O", "C", "A", "T", "I", "O", "N", "S">>

Str_CATEGORIES == <<"C", "A", "T", "E", "G", "O", "R", "I", "E", "S">>

Str_SCHEDULES == <<"S", "C", "H", "E", "D", "U", "L", "E", "S">>

Str_TXS == <<"T", "X", "S">>

Str_AUTO_SAVE == <<"A", "U", "T", "O", "_", "S", "A", "V", "E">>

Str_AUTO_PROCESS_STARTUP == <<"A", "U", "T", "O", "_", "P", "R", "O", "C", "E", "S", "S", "_", "S", "T", "A", "R", "T", "U", "P">>

Str_LANGUAGE == <<"L", "A", "N", "G", "U", "A", "G", "E">>

Str_true == <<"t", "r", "u", "e">>

\* The store when no file exists at the save path.
NoFile == "none"

Flag(b) == IF b THEN <<"1">> ELSE <<"0">>

IsTrue(s) == s = <<"1">> \/ s = Str_true

\* The fields of a record line joined by '|'.
RECURSIVE JoinBar(_)
JoinBar(fields) ==
    IF Len(fields) = 1 THEN fields[1]
    ELSE fields[1] \o <<"|">> \o JoinBar(Tail(fields))

\* displayNames[k].empty() ? k : displayNames[k]
DisplayOrKey(names, k) == IF Get(names, k, <<>>) = <<>> THEN k ELSE names[k]

\* saveToFile: the lines written, and the account afterwards (the reads
\* displayNames[k] of the ALLOCATIONS and CATEGORIES loops insert an empty
\* name for a key displayNames lacks).
saveToFile(a) ==
    LET InterestLine(ie) ==
            LET display == IF Has(a.displayNames, ie.categoryNormalized)
                           THEN a.displayNames[ie.categoryNormalized]
                           ELSE ie.categoryNormalized
            IN JoinBar(<<escapeForSave(display), FormatFixed(ie.ratePct), Flag(ie.monthly),
                         escapeForSave(toDateString(ie.startDate)),
                         escapeForSave(toDateString(ie.lastAppliedDate))>>)
        InterestLines(keys) == [i \in 1..Len(keys) |-> InterestLine(a.interestMap[keys[i]])]
        PairLine(m, k) ==
            JoinBar(<<escapeForSave(DisplayOrKey(a.displayNames, k)), FormatFixed(m[k])>>)
        PairLines(m, keys) == [i \in 1..Len(keys) |-> PairLine(m, keys[i])]
        ScheduleLine(sc) ==
            JoinBar(<<IF sc.type = "EveryXDays" THEN <<"E">> ELSE <<"M">>,
                      IntToStr(sc.param), FormatFixed(sc.amount), Flag(sc.autoAllocate),
                      escapeForSave(toDateString(sc.nextDate)),
                      escapeForSave(sc.category), escapeForSave(sc.note)>>)
        TxLine(t) ==
            JoinBar(<<escapeForSave(toDateString(t.date)), FormatFixed(t.amount),
                      escapeForSave(t.category), escapeForSave(t.note)>>)
    IN [a |-> [a EXCEPT !.displayNames =
                   [k \in (DOMAIN a.displayNames) \cup (DOMAIN a.allocationPct) \cup
                          (DOMAIN a.categoryBalances) |-> Get(a.displayNames, k, <<>>)]],
        file |->
            <<Str_BALANCE \o FormatFixed(a.balance),
              Str_SETTINGS,
              JoinBar(<<Str_AUTO_SAVE, Flag(a.settings.autoSave)>>),
              JoinBar(<<Str_AUTO_PROCESS_STARTUP, Flag(a.settings.autoProcessOnStartup)>>),
              JoinBar(<<Str_LANGUAGE, a.settings.language>>),
              Str_INTERESTS>>
            \o InterestLines(SortedKeys(DOMAIN a.interestMap))
            \o <<Str_ALLOCATIONS>>
            \o PairLines(a.allocationPct, SortedKeys(DOMAIN a.allocationPct))
            \o <<Str_CATEGORIES>>
            \o PairLines(a.categoryBalances, SortedKeys(DOMAIN a.categoryBalances))
            \o <<Str_SCHEDULES>>
            \o [i \in 1..Len(a.schedules) |-> ScheduleLine(a.schedules[i])]
            \o <<Str_TXS>>
            \o [i \in 1..Len(a.txs) |-> TxLine(a.txs[i])]]

\* One line of the SETTINGS section; kvp is the line split at '|'.
LoadSettingsLine(st, line) ==
    LET Split(kvp) ==
            IF Len(kvp) < 2 THEN st
            ELSE IF kvp[1] = Str_AUTO_SAVE
                 THEN [st EXCEPT !.a.settings.autoSave = IsTrue(kvp[2])]
            ELSE IF kvp[1] = Str_AUTO_PROCESS_STARTUP
                 THEN [st EXCEPT !.a.settings.autoProcessOnStartup = IsTrue(kvp[2])]
            ELSE IF kvp[1] = Str_LANGUAGE
                 THEN [st EXCEPT !.a.settings.language = kvp[2]]
            ELSE st
    IN Split(SplitScan(line))

\* One line of the INTERESTS section: category|rate|monthly|start|lastApplied.
\* Split takes the parts of the line, Converted what stod, tryParseDate
\* and normalizeKey make of them.
LoadInterestLine(st, line, today) ==
    LET Converted(parts, rate, start, lastp, nk) ==
            LET startd == IF start.ok THEN start.date ELSE today
                lastd == IF lastp.ok THEN lastp.date ELSE startd
                ie == [categoryNormalized |-> nk, ratePct |-> rate.val,
                       monthly |-> IsTrue(parts[3]),
                       startDate |-> startd, lastAppliedDate |-> lastd]
            IN IF ~rate.ok THEN st
               ELSE [st EXCEPT !.a.interestMap = Put(@, nk, ie),
                               !.a.displayNames = Touch(@, nk, parts[1])]
        Split(parts) ==
            IF Len(parts) < 5 THEN st
            ELSE Converted(parts, stod(parts[2]), tryParseDate(parts[4]),
                           tryParseDate(parts[5]), normalizeKey(parts[1]))
    IN Split(splitEscaped(line))

\* One line of the ALLOCATIONS section: category|percent.
LoadAllocLine(st, line) ==
    LET Converted(parts, v, nk) ==
            IF ~v.ok THEN st
            ELSE [st EXCEPT !.a.allocationPct = Put(@, nk, v.val),
                            !.a.displayNames = Touch(@, nk, parts[1])]
        Split(parts) ==
            IF Len(parts) < 2 THEN st
            ELSE Converted(parts, stod(parts[2]), normalizeKey(parts[1]))
    IN Split(splitEscaped(line))

\* One line of the CATEGORIES section: category|balance.
LoadCategoryLine(st, line) ==
    LET Converted(parts, v, nk) ==
            IF ~v.ok THEN st
            ELSE [st EXCEPT !.a.categoryBalances = Put(@, nk, v.val),
                            !.a.displayNames = Touch(@, nk, parts[1])]
        Split(parts) ==
            IF Len(parts) < 2 THEN st
            ELSE Converted(parts, stod(parts[2]), normalizeKey(parts[1]))
    IN Split(splitEscaped(line))

\* One line of the SCHEDULES section: type|param|amount|auto|date|category|note.
LoadScheduleLine(st, line) ==
    LET Converted(parts, param, amount, nd) ==
            LET sc == [type |-> IF parts[1] = <<"E">> THEN "EveryXDays" ELSE "MonthlyDay",
                       param |-> param.val, amount |-> amount.val, note |-> parts[7],
                       autoAllocate |-> IsTrue(parts[4]), nextDate |-> nd.date,
                       category |-> parts[6]]
            IN IF ~param.ok \/ ~amount.ok \/ ~nd.ok THEN st
               ELSE IF ~ValidSchedule(sc) THEN st
               ELSE [st EXCEPT !.a.schedules = Append(@, sc)]
        Split(parts) ==
            IF Len(parts) < 7 THEN st
            ELSE Converted(parts, stoi(parts[2]), stod(parts[3]), tryParseDate(parts[5]))
    IN Split(splitEscaped(line))

\* One line of the TXS section: date|amount|category|note.
LoadTxLine(st, line) ==
    LET Converted(parts, dt, amount, nk) ==
            IF ~dt.ok \/ ~amount.ok THEN st
            ELSE [st EXCEPT !.a.txs = Append(@, [date |-> dt.date, amount |-> amount.val,
                                                 category |-> parts[3], note |-> parts[4]]),
                            !.a.displayNames = Touch(@, nk, parts[3])]
        Split(parts) ==
            IF Len(parts) < 4 THEN st
            ELSE Converted(parts, tryParseDate(parts[1]), stod(parts[2]),
                           normalizeKey(parts[3]))
    IN Split(splitEscaped(line))

\* The body of the getline loop of loadFromFile; Balance takes what stod
\* makes of the text after "BALANCE ".
LoadLine(st, line, today) ==
    LET Balance(v) ==
            IF v.ok THEN [st EXCEPT !.savedBalance = v.val, !.hadSavedBalance = TRUE] ELSE st
    IN IF line = Str_SETTINGS THEN [st EXCEPT !.sec = "SettingsSec"]
       ELSE IF line = Str_INTERESTS THEN [st EXCEPT !.sec = "InterestSec"]
       ELSE IF line = Str_ALLOCATIONS THEN [st EXCEPT !.sec = "Alloc"]
       ELSE IF line = Str_CATEGORIES THEN [st EXCEPT !.sec = "Cats"]
       ELSE IF line = Str_SCHEDULES THEN [st EXCEPT !.sec = "Scheds"]
       ELSE IF line = Str_TXS THEN [st EXCEPT !.sec = "Txs"]
       ELSE IF StartsWith(line, Str_BALANCE) THEN Balance(stod(SubSeq(line, 9, Len(line))))
       ELSE IF st.sec = "SettingsSec" THEN LoadSettingsLine(st, line)
       ELSE IF st.sec = "InterestSec" THEN LoadInterestLine(st, line, today)
       ELSE IF st.sec = "Alloc" THEN LoadAllocLine(st, line)
       ELSE IF st.sec = "Cats" THEN LoadCategoryLine(st, line)
       ELSE IF st.sec = "Scheds" THEN LoadScheduleLine(st, line)
       ELSE IF st.sec = "Txs" THEN LoadTxLine(st, line)
       ELSE st

\* while (getline(ifs, line)): st.i is the number of the next line; the
\* lines st.i .. hi are read in order, one half of the range after the other.
RECURSIVE LoadLines(_, _, _, _)
LoadLines(st, lines, hi, today) ==
    IF st.i > hi THEN st
    ELSE IF st.i = hi THEN [LoadLine(st, lines[st.i], today) EXCEPT !.i = st.i + 1]
    ELSE LoadLines(LoadLines(st, lines, (st.i + hi) \div 2, today), lines, hi, today)

\* recomputedCats left empty: the stored category balances are kept.
RecomputedCatsEmpty(loaded) == EmptyMap

\* recomputedCats of loadFromFile after its loop over txs; nks are the
\* keys normalizeKey(t.category) of the transactions.
RecomputedCats(loaded) ==
    LET Sums(nks) ==
            [k \in {nks[i] : i \in 1..Len(nks)} |->
                SumSeq([i \in 1..Len(loaded) |->
                           IF nks[i] = k THEN loaded[i].amount ELSE 0])]
    IN Sums([i \in 1..Len(loaded) |-> normalizeKey(loaded[i].category)])

\* displayNames after the recompute loop: the first transaction of a key
\* names it when nothing did before.
RECURSIVE NamesFromTxs(_, _)
NamesFromTxs(names, loaded) ==
    IF loaded = <<>> THEN names
    ELSE NamesFromTxs(Touch(names, normalizeKey(loaded[1].category), loaded[1].category),
                      Tail(loaded))

\* The balance loadFromFile ends with: !computedBalance && hadSavedBalance
\* keeps the stored value.
LoadedBalance(computedBalance, hadSavedBalance, savedBalance) ==
    IF computedBalance = 0 /\ hadSavedBalance THEN savedBalance ELSE computedBalance

\* loadFromFile: ok is the returned bool, a the account afterwards.  today
\* is the value of today() during the call.  Finish is what follows the
\* getline loop, st holding the account read, savedBalance and
\* hadSavedBalance: Swapped is categoryBalances after the swap with
\* recomputedCats (a stored balance stays for a key no transaction has);
\* in the loop over allocationPct a key without a name is named by itself
\* (Named) and a key without a balance gets 0 (Zeroed).
loadFromFile(a, f, today) ==
    LET Cleared ==
            [a EXCEPT !.allocationPct = EmptyMap, !.categoryBalances = EmptyMap,
                      !.schedules = <<>>, !.txs = <<>>, !.displayNames = EmptyMap,
                      !.interestMap = EmptyMap, !.settings = DefaultSettings]
        Swapped(recomputed, stored) ==
            [k \in (DOMAIN recomputed) \cup (DOMAIN stored) |->
                IF Has(recomputed, k) THEN recomputed[k] ELSE stored[k]]
        Named(names, alloc) ==
            [k \in (DOMAIN names) \cup (DOMAIN alloc) |-> Get(names, k, k)]
        Zeroed(cats, alloc) ==
            [k \in (DOMAIN cats) \cup (DOMAIN alloc) |-> Get(cats, k, 0)]
        Finish(st) ==
            [ok |-> TRUE,
             a |-> [st.a EXCEPT
                      !.categoryBalances =
                          Zeroed(Swapped(RecomputedCats(st.a.txs), st.a.categoryBalances),
                                 st.a.allocationPct),
                      !.displayNames =
                          Named(NamesFromTxs(st.a.displayNames, st.a.txs), st.a.allocationPct),
                      !.balance =
                          LoadedBalance(SumSeq([i \in 1..Len(st.a.txs) |-> st.a.txs[i].amount]),
                                        st.hadSavedBalance, st.savedBalance)]]
    IN IF f = NoFile THEN [ok |-> FALSE, a |-> a]
       ELSE Finish(LoadLines([a |-> Cleared, sec |-> "None", savedBalance |-> 0,
                              hadSavedBalance |-> FALSE, i |-> 1], f, Len(f), today))

\* The menu action that sets an interest rate for a category (main):
\* the category is named on demand, lastAppliedDate starts at startDate.
setInterest(a, nk, ratePct, monthly, startDate) ==
    LET isNew == ~Has(a.displayNames, nk)
    IN [a EXCEPT !.displayNames = IF isNew THEN Put(@, nk, sanitizeDisplayName(nk)) ELSE @,
                 !.categoryBalances = IF isNew THEN Touch(@, nk, 0) ELSE @,
                 !.interestMap = Put(@, nk, [categoryNormalized |-> nk, ratePct |-> ratePct,
                                             monthly |-> monthly, startDate |-> startDate,
                                             lastAppliedDate |-> startDate])]

---------------------------------------------------------------------------
(* Account (finance_v2_3.cpp): interest by nextApplyDate, merged postings.
   safeLocaltime, daysInMonth, addMonths, normalizeKey and
   sanitizeDisplayName read the same in both files. *)

\* The loop of monthsBetweenInclusive in finance_v2_3.cpp: apply points
\* cur, addMonths(cur, 1), ... counted while they are not after end.
RECURSIVE CountApplyPoints(_, _, _)
CountApplyPoints(cur, end, count) ==
    LET Next(next) == IF next <= cur THEN count + 1
                      ELSE CountApplyPoints(next, end, count + 1)
    IN IF cur > end THEN count ELSE Next(addMonths(cur, 1))

monthsBetweenInclusive23(start, end) ==
    IF end < start THEN 0 ELSE CountApplyPoints(start, end, 0)

\* The first transaction with the same date, category and note, 0 if none.
MergeIndex(txsRef, date, category, note) ==
    LET hits == { i \in 1..Len(txsRef) :
                    /\ txsRef[i].date = date
                    /\ txsRef[i].category = category
                    /\ txsRef[i].note = note }
    IN IF hits = {} THEN 0 ELSE CHOOSE i \in hits : \A j \in hits : i <= j

\* Found is addOrMergeTransaction once the transaction to merge into (i,
\* 0 if none) and the key nk of category are known.
addOrMergeTransaction(a, date, amount, category, note, doMerge) ==
    LET Found(i, nk) ==
            [a EXCEPT !.txs = IF i = 0
                              THEN Append(@, [date |-> date, amount |-> amount,
                                              category |-> category, note |-> note])
                              ELSE [@ EXCEPT ![i].amount = @ + amount],
                      !.balance = @ + amount,
                      !.categoryBalances = Put(@, nk, Get(@, nk, 0) + amount)]
    IN Found(IF doMerge THEN MergeIndex(a.txs, date, category, note) ELSE 0,
             normalizeKey(category))

addManualTransaction23(a, date, amount, categoryRaw, note) ==
    LET Keyed(nk, catDisplay) ==
            LET names == Touch(a.displayNames, nk, catDisplay)
            IN addOrMergeTransaction([a EXCEPT !.displayNames = names],
                                     date, amount, names[nk], note, TRUE)
        Named(catDisplay) == Keyed(normalizeKey(catDisplay), catDisplay)
    IN Named(IF categoryRaw = <<>> THEN Str_Other ELSE sanitizeDisplayName(categoryRaw))

\* sort(txs.begin(), txs.end(), by date): an insertion of t after the
\* transactions dated no later than it.
RECURSIVE InsertByDate(_, _)
InsertByDate(sorted, t) ==
    IF sorted = <<>> THEN <<t>>
    ELSE IF sorted[Len(sorted)].date <= t.date THEN Append(sorted, t)
    ELSE Append(InsertByDate(SubSeq(sorted, 1, Len(sorted) - 1), t), sorted[Len(sorted)])

RECURSIVE SortByDate(_)
SortByDate(s) ==
    IF s = <<>> THEN <<>>
    ELSE InsertByDate(SortByDate(SubSeq(s, 1, Len(s) - 1)), s[Len(s)])

\* The second loop of allocateAmount in finance_v2_3.cpp: the share goes to
\* categoryBalances[p.first], then to addOrMergeTransaction, which posts
\* it and adds it to the balance of the key of catDisplay.
RECURSIVE AllocateLoop23(_, _, _, _, _, _)
AllocateLoop23(a, keys, date, amount, note, totalPct) ==
    IF keys = <<>> THEN a
    ELSE LET k == keys[1]
             share == Share(amount, a.allocationPct[k], totalPct)
             names == Touch(a.displayNames, k, <<>>)
             catDisplay == IF names[k] = <<>> THEN k ELSE names[k]
         IN AllocateLoop23(
                addOrMergeTransaction(
                    [a EXCEPT !.categoryBalances = Put(@, k, Get(@, k, 0) + share),
                              !.displayNames = names],
                    date, share, catDisplay, note \o Str_AutoAlloc, TRUE),
                Tail(keys), date, amount, note, totalPct)

\* allocateAmount of finance_v2_3.cpp; Fallback merges the whole amount
\* into "Other", nk being normalizeKey("Other").
allocateAmount23(a, date, amount, note) ==
    LET Fallback(nk) ==
            LET names == Touch(a.displayNames, nk, Str_Other)
            IN addOrMergeTransaction([a EXCEPT !.displayNames = names], date, amount,
                                     names[nk], note \o Str_AutoAllocFallback, TRUE)
        Summed(totalPct) ==
            IF totalPct <= 0   \* totalPct <= 0.000001, below the model's resolution
            THEN Fallback(normalizeKey(Str_Other))
            ELSE AllocateLoop23(a, SortedKeys(DOMAIN a.allocationPct), date, amount, note,
                                totalPct)
    IN Summed(TotalPct(a))

\* while (s.nextDate <= upTo && iter < maxIter) of processSchedulesUpTo in
\* finance_v2_3.cpp (dryRun false); Fired is its body for the schedule s:
\* post, then advance nextDate.
RECURSIVE FireLoop23(_, _, _, _, _)
FireLoop23(a, i, upTo, iter, maxIter) ==
    LET Fired(s) ==
            LET posted == IF s.autoAllocate /\ s.amount > 0
                          THEN allocateAmount23(a, s.nextDate, s.amount,
                                                Str_Scheduled \o s.note)
                          ELSE addOrMergeTransaction(
                                   a, s.nextDate, s.amount,
                                   IF s.category = <<>> THEN Str_Other ELSE s.category,
                                   Str_Scheduled \o s.note, TRUE)
                next == IF s.type = "EveryXDays" THEN addDays(s.nextDate, s.param)
                        ELSE nextMonthlyOn(s.nextDate, s.param)
            IN [posted EXCEPT !.schedules[i].nextDate = next]
    IN IF a.schedules[i].nextDate <= upTo /\ iter < maxIter
       THEN FireLoop23(Fired(a.schedules[i]), i, upTo, iter + 1, maxIter)
       ELSE a

\* The loop of processSchedulesUpTo over the schedules in finance_v2_3.cpp;
\* MaxIter is the bound it computes for the schedule s.
RECURSIVE ScheduleLoop23(_, _, _)
ScheduleLoop23(a, i, upTo) ==
    LET MaxIter(s) ==
            IF s.type = "EveryXDays"
            THEN Min(Max(0, upTo - s.nextDate) \div Max(1, s.param) + 5, 100000)
            ELSE Min(monthsBetweenInclusive23(s.nextDate, upTo) + 5, 1200)
    IN IF i > Len(a.schedules) THEN a
       ELSE IF ~ValidSchedule(a.schedules[i]) THEN ScheduleLoop23(a, i + 1, upTo)
       ELSE ScheduleLoop23(FireLoop23(a, i, upTo, 0, MaxIter(a.schedules[i])), i + 1, upTo)

\* processSchedulesUpTo(upTo) of finance_v2_3.cpp: the loop, then the sort
\* of txs by date.
processSchedulesUpTo23(a, upTo) ==
    LET Sorted(r) == [r EXCEPT !.txs = SortByDate(@)]
    IN Sorted(ScheduleLoop23(a, 1, upTo))

createSnapshot(a) ==
    [txCount |-> Len(a.txs), balance |-> a.balance,
     categoryBalances |-> a.categoryBalances, interestMap |-> a.interestMap,
     schedules |-> a.schedules]

restoreSnapshot(a, s) ==
    [a EXCEPT !.txs = IF Len(@) > s.txCount THEN SubSeq(@, 1, s.txCount) ELSE @,
              !.balance = s.balance,
              !.categoryBalances = s.categoryBalances,
              !.interestMap = s.interestMap,
              !.schedules = s.schedules]

Str_InterestAnnual23 ==
    <<"I", "n", "t", "e", "r", "e", "s", "t", " ", "(", "a", "n", "n", "u", "a", "l", "/",
      "c", "o", "n", "v", "e", "r", "t", "e", "d", " ",
      "m", "o", "n", "t", "h", "l", "y", ")">>

\* The month loop of applyInterestUpTo in finance_v2_3.cpp; st is
\* [a |-> the account, w |-> workingTxs].  Step is the body for applyDate,
\* Balanced the body once bal is summed, Post the posting: merged into
\* txs, pushed to workingTxs.
RECURSIVE MonthLoop23(_, _, _, _, _)
MonthLoop23(st, nk, applyBase, m, months) ==
    LET Post(ie, applyDate, interest) ==
            LET key == ie.categoryNormalized
                display == IF Has(st.a.displayNames, key) THEN st.a.displayNames[key]
                           ELSE key
                note == IF ie.monthly THEN Str_InterestMonthly ELSE Str_InterestAnnual23
            IN [a |-> addOrMergeTransaction(st.a, applyDate, interest, display, note, TRUE),
                w |-> Append(st.w, [date |-> applyDate, amount |-> interest,
                                    category |-> display, note |-> note])]
        Balanced(ie, applyDate, bal) ==
            IF bal <= 0 \/ bal * ie.ratePct = 0 THEN st
            ELSE Post(ie, applyDate, Interest(bal, ie))
        Step(ie, applyDate) ==
            Balanced(ie, applyDate,
                     CategoryBalanceAt(st.w, ie.categoryNormalized, applyDate))
    IN IF m >= months THEN st
       ELSE MonthLoop23(Step(st.a.interestMap[nk], addMonths(applyBase, m)),
                        nk, applyBase, m + 1, months)

\* The loop of applyInterestUpTo over interestMap in key order.  Body is
\* its body for the entry ie of key nk, From the body from the raise of
\* nextApplyDate to base on, Counted the body once months is known (r
\* being st with nextApplyDate raised); Advanced sets nextApplyDate to the
\* date months later, not beyond upTo.
RECURSIVE InterestLoop23(_, _, _)
InterestLoop23(st, keys, upTo) ==
    LET Advanced(r, nk, newNext) ==
            [r EXCEPT !.a.interestMap[nk].nextApplyDate =
                          IF newNext > upTo THEN upTo ELSE newNext]
        Counted(r, nk, base, months) ==
            IF months <= 0 THEN r
            ELSE Advanced(MonthLoop23(r, nk, base, 0, months), nk, addMonths(base, months))
        From(nk, base) ==
            Counted([st EXCEPT !.a.interestMap[nk].nextApplyDate = base], nk, base,
                    monthsBetweenInclusive23(base, upTo))
        Body(nk, ie) ==
            IF ie.startDate > upTo THEN st
            ELSE From(nk, IF ie.nextApplyDate < ie.startDate THEN ie.startDate
                          ELSE ie.nextApplyDate)
    IN IF keys = <<>> THEN st
       ELSE InterestLoop23(Body(keys[1], st.a.interestMap[keys[1]]), Tail(keys), upTo)

\* applyInterestUpTo(upTo) of finance_v2_3.cpp with dryRun = false, as
\* [a |-> the account after the call, w |-> workingTxs at its end]; Sorted
\* is the sort that ends it.
ApplyInterest23(a, upTo) ==
    LET Sorted(st) == [st EXCEPT !.a.txs = SortByDate(@)]
    IN IF DOMAIN a.interestMap = {} THEN [a |-> a, w |-> a.txs]
       ELSE Sorted(InterestLoop23([a |-> a, w |-> a.txs],
                                  SortedKeys(DOMAIN a.interestMap), upTo))

applyInterestUpTo23(a, upTo) == ApplyInterest23(a, upTo).a

\* The interest menu of finance_v2_3.cpp (main): nextApplyDate starts at
\* the start date.
setInterest23(a, display, ratePct, monthly, sdt) ==
    LET nk == normalizeKey(display)
    IN [a EXCEPT !.displayNames = Touch(@, nk, sanitizeDisplayName(display)),
                 !.interestMap = Put(@, nk, [categoryNormalized |-> nk, ratePct |-> ratePct,
                                             monthly |-> monthly, startDate |-> sdt,
                                             nextApplyDate |-> sdt])]

\* The lines saveToFile of finance_v2_3.cpp writes and the account
\* afterwards: the text of its lines 688-726 is that of finance_v2_6.cpp,
\* the last field of an INTERESTS line being addMonths(nextApplyDate, -1).
saveToFile23(a) ==
    LET Written(r) == [a |-> [r.a EXCEPT !.interestMap = a.interestMap], file |-> r.file]
        Compat(ie) ==
            [categoryNormalized |-> ie.categoryNormalized, ratePct |-> ie.ratePct,
             monthly |-> ie.monthly, startDate |-> ie.startDate,
             lastAppliedDate |-> addMonths(ie.nextApplyDate, -1)]
    IN Written(saveToFile([a EXCEPT !.interestMap =
                              [k \in DOMAIN a.interestMap |-> Compat(a.interestMap[k])]]))

---------------------------------------------------------------------------
(* The inputs of the model *)

\* The most calls in a run.
MaxOps == 3

\* The most schedules added.
MaxSchedules == 2

\* The longest string escaped and unescaped.
MaxLen == 3

\* The most fields of a joined line, and the longest of them.
MaxFields == 2

MaxFieldLen == 1

Date(y, m, d) == mktime(y, m, d)

TxInputs ==
    { [date |-> Date(2024, 1, 1), amount |-> 10000],
      [date |-> Date(2024, 2, 15), amount |-> -10000] }

RawCategories ==
    { <<>>, Str_Other, <<" ", "F", "u", "n", "!">>,
      <<"B", "A", "L", "A", "N", "C", "E", " ", "5">> }

Notes == { <<"i">>, <<"a", "\\", "b">> }

Key_other == <<"o", "t", "h", "e", "r">>

Key_saving == <<"s", "a", "v", "i", "n", "g">>

AllocThirds ==
    [k \in { Str_Other, <<"S", "a", "v", "i", "n", "g">>, <<"F", "u", "n">> } |-> 1000]

AllocSigned == [k \in { Str_Other, <<"F", "u", "n">> } |-> IF k = Str_Other THEN 15000 ELSE -5000]

AllocChoices == { EmptyMap, AllocThirds, AllocSigned }

AllocateInputs ==
    { [date |-> Date(2024, 1, 1), amount |-> 10000, note |-> <<"p">>],
      [date |-> Date(2024, 2, 15), amount |-> 1, note |-> <<>>] }

ScheduleChoices ==
    { [type |-> "MonthlyDay", param |-> 31, amount |-> 1000, note |-> <<"r">>,
       autoAllocate |-> FALSE, nextDate |-> Date(2024, 1, 31), category |-> <<>>],
      [type |-> "MonthlyDay", param |-> 15, amount |-> 10000, note |-> <<"s">>,
       autoAllocate |-> TRUE, nextDate |-> Date(2024, 1, 15), category |-> <<>>],
      [type |-> "EveryXDays", param |-> 10, amount |-> -500, note |-> <<"g">>,
       autoAllocate |-> FALSE, nextDate |-> Date(2024, 1, 1), category |-> <<"F", "u", "n">>],
      [type |-> "EveryXDays", param |-> 0, amount |-> 700, note |-> <<"z">>,
       autoAllocate |-> FALSE, nextDate |-> Date(2024, 1, 1), category |-> Str_Other],
      [type |-> "MonthlyDay", param |-> 32, amount |-> 300, note |-> <<"m">>,
       autoAllocate |-> FALSE, nextDate |-> Date(2024, 1, 31), category |-> Str_Other] }

InterestChoices ==
    { [nk |-> Key_other, ratePct |-> 100, monthly |-> TRUE, startDate |-> Date(2024, 1, 1)],
      [nk |-> Key_saving, ratePct |-> 1200, monthly |-> FALSE, startDate |-> Date(2024, 1, 31)] }

UpToDates == { Date(2024, 3, 1), Date(2024, 4, 30) }

TodayDates == { Date(2024, 4, 30) }

InterestChoices23 ==
    { [display |-> Str_Other, ratePct |-> 100, monthly |-> TRUE,
       startDate |-> Date(2024, 1, 31)],
      [display |-> <<"S", "a", "v", "i", "n", "g">>, ratePct |-> 1200, monthly |-> FALSE,
       startDate |-> Date(2024, 1, 1)] }

UpToDates23 == { Date(2024, 3, 1), Date(2024, 3, 30), Date(2024, 4, 30) }

\* Stores written to the save path by something other than saveToFile.
Store_ZeroSum ==
    << <<"B", "A", "L", "A", "N", "C", "E", " ", "5", "0">>,
       Str_TXS,
       <<"2", "0", "2", "4", "-", "0", "1", "-", "0", "1", "|", "1", "0", "0", "|", "O", "t", "h", "e", "r", "|", "a">>,
       <<"2", "0", "2", "4", "-", "0", "1", "-", "0", "2", "|", "-", "1", "0", "0", "|", "O", "t", "h", "e", "r", "|", "b">> >>

Store_NoTxs == << <<"B", "A", "L", "A", "N", "C", "E", " ", "5", "0">> >>

Store_Mismatch ==
    << <<"B", "A", "L", "A", "N", "C", "E", " ", "5", "0">>,
       Str_TXS,
       <<"2", "0", "2", "4", "-", "0", "1", "-", "0", "1", "|", "1", "0", "0", "|", "O", "t", "h", "e", "r", "|", "a">> >>

\* A TXS section whose second line has three fields.
Store_ShortLine ==
    << <<"B", "A", "L", "A", "N", "C", "E", " ", "5", "0">>,
       Str_TXS,
       <<"2", "0", "2", "4", "-", "0", "1", "-", "0", "1", "|", "1", "0", "0", "|", "O", "t", "h", "e", "r", "|", "a">>,
       <<"2", "0", "2", "4", "-", "0", "1", "-", "0", "2", "|", "5", "|", "O", "t", "h", "e", "r">>,
       <<"2", "0", "2", "4", "-", "0", "1", "-", "0", "3", "|", "-", "3", "0", "|", "O", "t", "h", "e", "r", "|", "b">> >>

\* A TXS section whose second line has five fields.
Store_ExtraField ==
    << Str_TXS,
       <<"2", "0", "2", "4", "-", "0", "1", "-", "0", "1", "|", "1", "0", "0", "|", "O", "t", "h", "e", "r", "|", "a">>,
       <<"2", "0", "2", "4", "-", "0", "1", "-", "0", "2", "|", "7", "|", "O", "t", "h", "e", "r", "|", "b", "|", "c">> >>

\* An interest rule applied last before its start date, and one record of
\* each dated section whose date does not parse.
Store_Dates ==
    << Str_INTERESTS,
       <<"O", "t", "h", "e", "r", "|", "1", "|", "1", "|", "2", "0", "2", "4", "-", "0", "2", "-", "0", "1", "|", "2", "0", "2", "4", "-", "0", "1", "-", "0", "1">>,
       <<"S", "a", "v", "i", "n", "g", "|", "1", "|", "1", "|", "2", "0", "2", "4", "-", "0", "x", "-", "0", "1", "|", "2", "0", "2", "4", "-", "0", "1", "-", "0", "1">>,
       Str_SCHEDULES,
       <<"M", "|", "1", "5", "|", "1", "0", "|", "0", "|", "2", "0", "2", "4", "-", "0", "1", "-", "x", "x", "|", "O", "t", "h", "e", "r", "|", "s">>,
       Str_TXS,
       <<"2", "0", "2", "4", "-", "0", "1", "-", "0", "1", "|", "1", "0", "0", "|", "O", "t", "h", "e", "r", "|", "a">>,
       <<"2", "0", "x", "4", "-", "0", "1", "-", "0", "2", "|", "5", "|", "O", "t", "h", "e", "r", "|", "b">> >>

\* Stored category balances: one for a category without transactions, one
\* that disagrees with the transactions of its category.
Store_Categories ==
    << Str_CATEGORIES,
       <<"S", "a", "v", "i", "n", "g", "|", "3", "0">>,
       <<"O", "t", "h", "e", "r", "|", "7">>,
       Str_TXS,
       <<"2", "0", "2", "4", "-", "0", "1", "-", "0", "1", "|", "1", "0", "0", "|", "O", "t", "h", "e", "r", "|", "a">> >>

ForeignStores ==
    { Store_ZeroSum, Store_NoTxs, Store_Mismatch, Store_ShortLine, Store_ExtraField,
      Store_Dates, Store_Categories }

---------------------------------------------------------------------------
(* The state machine of finance_v2_6.cpp *)

Acc ==
    [balance |-> balance, txs |-> txs, schedules |-> schedules,
     allocationPct |-> allocationPct, categoryBalances |-> categoryBalances,
     displayNames |-> displayNames, interestMap |-> interestMap, settings |-> settings]

SetAcc(r) ==
    /\ balance' = r.balance
    /\ txs' = r.txs
    /\ schedules' = r.schedules
    /\ allocationPct' = r.allocationPct
    /\ categoryBalances' = r.categoryBalances
    /\ displayNames' = r.displayNames
    /\ interestMap' = r.interestMap
    /\ settings' = r.settings

\* A call: the Account becomes r, the call is recorded.  The program is
\* single-threaded: no call starts inside a save.
Call(r, rec) ==
    /\ pc = "idle"
    /\ ops < MaxOps
    /\ SetAcc(r)
    /\ UNCHANGED <<tmpfile, pc, snapshot>>
    /\ ops' = ops + 1
    /\ last' = rec

\* The state after Account() made a: nothing saved, nothing called.
Init ==
    LET Constructed(a) ==
            /\ balance = a.balance
            /\ txs = a.txs
            /\ schedules = a.schedules
            /\ allocationPct = a.allocationPct
            /\ categoryBalances = a.categoryBalances
            /\ displayNames = a.displayNames
            /\ interestMap = a.interestMap
            /\ settings = a.settings
            /\ file = NoFile
            /\ tmpfile = NoFile
            /\ pc = "idle"
            /\ snapshot = <<>>
            /\ ops = 0
            /\ last = [op |-> "Account"]
    IN Constructed(NewAccount)

AddManualTransaction ==
    \E i \in TxInputs, c \in RawCategories, n \in Notes :
        /\ Call(addManualTransaction(Acc, i.date, i.amount, c, n),
                [op |-> "addManualTransaction", pre |-> Acc, amount |-> i.amount,
                 category |-> c])
        /\ UNCHANGED file

SetAllocation ==
    \E m \in AllocChoices :
        /\ Call(setAllocation(Acc, m), [op |-> "setAllocation", pre |-> Acc])
        /\ UNCHANGED file

AllocateAmount ==
    \E i \in AllocateInputs :
        /\ Call(allocateAmount(Acc, i.date, i.amount, i.note),
                [op |-> "allocateAmount", pre |-> Acc, amount |-> i.amount])
        /\ UNCHANGED file

AddSchedule ==
    \E sc \in ScheduleChoices :
        /\ Len(schedules) < MaxSchedules
        /\ Call(addSchedule(Acc, sc), [op |-> "addSchedule", pre |-> Acc])
        /\ UNCHANGED file

SetInterest ==
    \E i \in InterestChoices :
        /\ Call(setInterest(Acc, i.nk, i.ratePct, i.monthly, i.startDate),
                [op |-> "setInterest", pre |-> Acc])
        /\ UNCHANGED file

ProcessSchedulesUpTo ==
    \E d \in UpToDates :
        /\ Call(processSchedulesUpTo(Acc, d),
                [op |-> "processSchedulesUpTo", pre |-> Acc, upTo |-> d])
        /\ UNCHANGED file

ApplyInterestUpTo ==
    \E d \in UpToDates :
        /\ Call(applyInterestUpTo(Acc, d),
                [op |-> "applyInterestUpTo", pre |-> Acc, upTo |-> d])
        /\ UNCHANGED file

\* Saved: saveToFile returned r, the account and the lines written.
SaveToFile ==
    LET Saved(r) ==
            /\ Call(r.a, [op |-> "saveToFile", pre |-> Acc])
            /\ file' = r.file
    IN Saved(saveToFile(Acc))

\* Loaded: loadFromFile returned r on the day d.
LoadFromFile ==
    LET Loaded(r, d) ==
            /\ Call(r.a, [op |-> "loadFromFile", pre |-> Acc, ok |-> r.ok, today |-> d])
            /\ UNCHANGED file
    IN \E d \in TodayDates : Loaded(loadFromFile(Acc, file, d), d)

\* The store is replaced from outside the program.
StoreReplaced ==
    \E f \in ForeignStores :
        /\ ops < MaxOps
        /\ file' = f
        /\ ops' = ops + 1
        /\ last' = [op |-> "storeReplaced"]
        /\ UNCHANGED <<balance, txs, schedules, allocationPct, categoryBalances,
                       displayNames, interestMap, settings, tmpfile, pc, snapshot>>

Next ==
    \/ AddManualTransaction
    \/ SetAllocation
    \/ AllocateAmount
    \/ AddSchedule
    \/ SetInterest
    \/ ProcessSchedulesUpTo
    \/ ApplyInterestUpTo
    \/ SaveToFile
    \/ LoadFromFile
    \/ StoreReplaced

Spec == Init /\ [][Next]_vars

---------------------------------------------------------------------------
(* The state machine of finance_v2_3.cpp *)

Init23 ==
    LET Constructed(a) ==
            /\ balance = a.balance
            /\ txs = a.txs
            /\ schedules = a.schedules
            /\ allocationPct = a.allocationPct
            /\ categoryBalances = a.categoryBalances
            /\ displayNames = a.displayNames
            /\ interestMap = a.interestMap
            /\ settings = a.settings
            /\ file = NoFile
            /\ tmpfile = NoFile
            /\ pc = "idle"
            /\ snapshot = <<>>
            /\ ops = 0
            /\ last = [op |-> "Account"]
    IN Constructed(NewAccount)

AddManualTransaction23 ==
    \E i \in TxInputs, c \in RawCategories, n \in Notes :
        /\ Call(addManualTransaction23(Acc, i.date, i.amount, c, n),
                [op |-> "addManualTransaction", pre |-> Acc, amount |-> i.amount,
                 category |-> c])
        /\ UNCHANGED file

SetInterest23 ==
    \E i \in InterestChoices23 :
        /\ Call(setInterest23(Acc, i.display, i.ratePct, i.monthly, i.startDate),
                [op |-> "setInterest", pre |-> Acc])
        /\ UNCHANGED file

\* Applied: applyInterestUpTo(d) returned r; posted are the interest
\* transactions the call pushed onto workingTxs.
ApplyInterestUpTo23 ==
    LET Applied(r, d) ==
            /\ Call(r.a, [op |-> "applyInterestUpTo", pre |-> Acc, upTo |-> d,
                          posted |-> SubSeq(r.w, Len(txs) + 1, Len(r.w))])
            /\ UNCHANGED file
    IN \E d \in UpToDates23 : Applied(ApplyInterest23(Acc, d), d)

AllocateAmount23 ==
    \E i \in AllocateInputs :
        /\ Call(allocateAmount23(Acc, i.date, i.amount, i.note),
                [op |-> "allocateAmount", pre |-> Acc, amount |-> i.amount])
        /\ UNCHANGED file

Next23 ==
    \/ AddManualTransaction23
    \/ SetInterest23
    \/ ApplyInterestUpTo23
    \/ AllocateAmount23

Spec23 == Init23 /\ [][Next23]_vars

---------------------------------------------------------------------------
(* saveToFile of finance_v2_3.cpp, step by step *)

\* ofstream ofs(tmpname, ios::trunc): the temporary file is emptied, or it
\* cannot be opened and saveToFile returns.  last keeps the store found
\* at the save path and the lines to write.
SaveBegin23 ==
    LET Begun(lines) ==
            /\ pc = "idle"
            /\ ops < MaxOps
            /\ ops' = ops + 1
            /\ \/ /\ tmpfile' = <<>>
                  /\ pc' = "write"
                  /\ last' = [op |-> "saveToFile", prev |-> file, new |-> lines,
                              opened |-> TRUE]
               \/ /\ UNCHANGED <<tmpfile, pc>>
                  /\ last' = [op |-> "saveToFile", prev |-> file, new |-> lines,
                              opened |-> FALSE]
            /\ UNCHANGED <<balance, txs, schedules, allocationPct, categoryBalances,
                           displayNames, interestMap, settings, file, snapshot>>
    IN Begun(saveToFile23(Acc).file)

\* ofs << ... "\n": the next line reaches the temporary file; after the
\* last one ofs.close() ends the writing (by then the loops over
\* allocationPct and categoryBalances have read displayNames[p.first]).
SaveWrite23 ==
    LET Written(r, n) ==
            /\ pc = "write"
            /\ tmpfile' = Append(tmpfile, r.file[n])
            /\ IF n = Len(r.file)
               THEN pc' = "rename" /\ SetAcc(r.a)
               ELSE UNCHANGED <<pc, balance, txs, schedules, allocationPct,
                                categoryBalances, displayNames, interestMap, settings>>
            /\ UNCHANGED <<file, ops, last, snapshot>>
    IN pc = "write" /\ Written(saveToFile23(Acc), Len(tmpfile) + 1)

\* std::filesystem::rename(tmpname, filename): the temporary file takes
\* the place of the store, or the call throws.
SaveRename23 ==
    /\ pc = "rename"
    /\ \/ file' = tmpfile /\ tmpfile' = NoFile /\ pc' = "idle"
       \/ pc' = "remove" /\ UNCHANGED <<file, tmpfile>>
    /\ UNCHANGED <<balance, txs, schedules, allocationPct, categoryBalances,
                   displayNames, interestMap, settings, ops, last, snapshot>>

\* catch (...): remove(filename), its result unread, then
\* std::rename(tmpname, filename), after whose failure saveToFile returns.
SaveFallback23 ==
    /\ \/ /\ pc = "remove"
          /\ file' = NoFile \/ file' = file
          /\ pc' = "rename2"
          /\ UNCHANGED tmpfile
       \/ /\ pc = "rename2"
          /\ \/ file' = tmpfile /\ tmpfile' = NoFile
             \/ UNCHANGED <<file, tmpfile>>
          /\ pc' = "idle"
    /\ UNCHANGED <<balance, txs, schedules, allocationPct, categoryBalances,
                   displayNames, interestMap, settings, ops, last, snapshot>>

\* The process ends inside saveToFile; the files stay as they are.
Crash23 ==
    /\ pc \in {"write", "rename", "remove", "rename2"}
    /\ pc' = "crashed"
    /\ UNCHANGED <<balance, txs, schedules, allocationPct, categoryBalances,
                   displayNames, interestMap, settings, file, tmpfile, ops, last,
                   snapshot>>

NextSave23 ==
    \/ Next23
    \/ SaveBegin23
    \/ SaveWrite23
    \/ SaveRename23
    \/ SaveFallback23
    \/ Crash23

SpecSave23 == Init23 /\ [][NextSave23]_vars

---------------------------------------------------------------------------
(* createSnapshot and restoreSnapshot of finance_v2_3.cpp *)

\* The calls of one run: two to fill the account and to schedule or set
\* interest, createSnapshot, one processing call, restoreSnapshot.
MaxSnapshotOps == 5

\* A call of the Account of finance_v2_3.cpp returned, leaving the
\* Account r; snap is the snapshot held after it.
Called23(r, rec, snap) ==
    /\ pc = "idle"
    /\ ops < MaxSnapshotOps
    /\ SetAcc(r)
    /\ snapshot' = snap
    /\ ops' = ops + 1
    /\ last' = rec
    /\ UNCHANGED <<file, tmpfile, pc>>

\* The calls that fill the account, made before createSnapshot.
Fill23 ==
    /\ snapshot = <<>>
    /\ \/ \E i \in TxInputs, n \in Notes :
              Called23(addManualTransaction23(Acc, i.date, i.amount, Str_Other, n),
                       [op |-> "addManualTransaction", pre |-> Acc], snapshot)
       \/ \E sc \in ScheduleChoices :
              /\ Len(schedules) < MaxSchedules
              /\ Called23(addSchedule(Acc, sc), [op |-> "addSchedule", pre |-> Acc],
                          snapshot)
       \/ \E i \in InterestChoices23 :
              Called23(setInterest23(Acc, i.display, i.ratePct, i.monthly, i.startDate),
                       [op |-> "setInterest", pre |-> Acc], snapshot)

CreateSnapshot23 ==
    /\ snapshot = <<>>
    /\ Called23(Acc, [op |-> "createSnapshot", pre |-> Acc],
                <<[s |-> createSnapshot(Acc), at |-> Acc]>>)

ProcessSchedulesUpTo23 ==
    /\ snapshot # <<>>
    /\ \E d \in UpToDates23 :
          Called23(processSchedulesUpTo23(Acc, d),
                   [op |-> "processSchedulesUpTo", pre |-> Acc, upTo |-> d], snapshot)

SnapshotApplyInterestUpTo23 ==
    /\ snapshot # <<>>
    /\ \E d \in UpToDates23 :
          Called23(applyInterestUpTo23(Acc, d),
                   [op |-> "applyInterestUpTo", pre |-> Acc, upTo |-> d], snapshot)

RestoreSnapshot23 ==
    /\ snapshot # <<>>
    /\ Called23(restoreSnapshot(Acc, snapshot[1].s),
                [op |-> "restoreSnapshot", pre |-> Acc, at |-> snapshot[1].at], <<>>)

NextSnapshot23 ==
    \/ Fill23
    \/ CreateSnapshot23
    \/ ProcessSchedulesUpTo23
    \/ SnapshotApplyInterestUpTo23
    \/ RestoreSnapshot23

SpecSnapshot23 == Init23 /\ [][NextSnapshot23]_vars

---------------------------------------------------------------------------
(* The free functions of finance_v2_6.cpp, each applied once to an input *)

\* A function returned: last holds its arguments and its result.
Computed(rec) ==
    /\ pc = "idle"
    /\ ops = 0
    /\ ops' = 1
    /\ last' = rec
    /\ UNCHANGED <<balance, txs, schedules, allocationPct, categoryBalances,
                   displayNames, interestMap, settings, file, tmpfile, pc, snapshot>>

\* unescapeLoaded(escapeForSave(s)) for the strings of at most MaxLen
\* characters out of '|', backslash, newline, 'n' and 'a'.
UnescapeEscaped ==
    LET StringsUpTo(n) == UNION { [1..k -> {"|", "\\", "\n", "n", "a"}] : k \in 0..n }
        Done(s, e) ==
            Computed([op |-> "unescapeLoaded", s |-> s, escaped |-> e,
                      out |-> unescapeLoaded(e)])
    IN ops = 0 /\ \E s \in StringsUpTo(MaxLen) : Done(s, escapeForSave(s))

\* splitEscaped of the line made of the escaped fields joined by '|', for
\* 1 .. MaxFields fields of at most MaxFieldLen characters.
SplitJoined ==
    LET StringsUpTo(n) == UNION { [1..k -> {"|", "\\", "\n", "n", "a"}] : k \in 0..n }
        Done(fields, line) ==
            Computed([op |-> "splitEscaped", fields |-> fields, line |-> line,
                      parts |-> splitEscaped(line)])
    IN /\ ops = 0
       /\ \E k \in 1..MaxFields : \E fields \in [1..k -> StringsUpTo(MaxFieldLen)] :
              Done(fields, JoinBar([i \in 1..k |-> escapeForSave(fields[i])]))

\* nextMonthlyOn(from, day) for the days of 2023 and 2024.
NextMonthlyOn ==
    /\ ops = 0
    /\ \E from \in Date(2023, 1, 1)..Date(2024, 12, 31), day \in 1..31 :
          Computed([op |-> "nextMonthlyOn", from |-> from, day |-> day,
                    out |-> nextMonthlyOn(from, day)])

\* addMonths(tp, months) for the days of 2023 .. 2025 and the month counts
\* that stay inside Years.
AddMonths ==
    LET Target(t, months) == (t.year - 2023) * 12 + t.mon - 1 + months
    IN /\ ops = 0
       /\ \E tp \in Date(2023, 1, 1)..Date(2025, 12, 31), months \in -13..13 :
              /\ Target(safeLocaltime(tp), months) \in 0..59
              /\ Computed([op |-> "addMonths", tp |-> tp, months |-> months,
                           out |-> addMonths(tp, months)])

\* monthsBetweenInclusive(start, end) of finance_v2_6.cpp and of
\* finance_v2_3.cpp (iterated) for the starts of the first quarter of 2024
\* and the ends from December 2023 to June 2024.
MonthsBetweenInclusive ==
    /\ ops = 0
    /\ \E start \in Date(2024, 1, 1)..Date(2024, 3, 31),
          end \in Date(2023, 12, 1)..Date(2024, 6, 30) :
          Computed([op |-> "monthsBetweenInclusive", start |-> start, end |-> end,
                    out |-> monthsBetweenInclusive(start, end),
                    iterated |-> monthsBetweenInclusive23(start, end)])

NextFunctions ==
    \/ UnescapeEscaped
    \/ SplitJoined
    \/ NextMonthlyOn
    \/ AddMonths
    \/ MonthsBetweenInclusive

SpecFunctions == Init /\ [][NextFunctions]_vars

---------------------------------------------------------------------------
(* Properties *)

\* The transactions the last call appended to the log.
Posted == SubSeq(txs, Len(last.pre.txs) + 1, Len(txs))

Amounts(ts) == [i \in 1..Len(ts) |-> ts[i].amount]

CategoryKeys(a) ==
    DOMAIN a.displayNames \cup DOMAIN a.categoryBalances \cup DOMAIN a.allocationPct

\* C1: after a successful loadFromFile that loaded at least one
\* transaction, the balance is the sum of the loaded amounts, whatever
\* BALANCE value the file stores; the stored value is kept only when no
\* transaction was loaded.
C1_LoadedBalanceIsSumOfTxs ==
    (last.op = "loadFromFile" /\ last.ok /\ Len(txs) >= 1)
        => balance = SumSeq(Amounts(txs))

\* C2: saveToFile followed by loadFromFile of the file written gives back
\* the same transactions (date, amount, category, note), the same category
\* keys, the same schedules and the same interest rules.
C2_SaveLoadRoundTrip ==
    last.op = "saveToFile" =>
        \A d \in TodayDates :
            LET r == loadFromFile(Acc, file, d)
            IN /\ r.ok
               /\ r.a.txs = txs
               /\ CategoryKeys(r.a) = CategoryKeys(Acc)
               /\ r.a.schedules = schedules
               /\ r.a.interestMap = interestMap

\* C3: a second processSchedulesUpTo(d) right after the first posts
\* nothing: after the first call no valid schedule has nextDate <= d.
C3_ProcessSchedulesIdempotent ==
    last.op = "processSchedulesUpTo" =>
        /\ processSchedulesUpTo(Acc, last.upTo).txs = txs
        /\ \A i \in 1..Len(schedules) :
              ValidSchedule(schedules[i]) => schedules[i].nextDate > last.upTo

\* C4: a second applyInterestUpTo(d) right after the first posts no
\* interest transaction and changes no balance.
C4_ApplyInterestIdempotent ==
    last.op = "applyInterestUpTo" =>
        LET r == applyInterestUpTo(Acc, last.upTo)
        IN /\ r.txs = txs
           /\ r.balance = balance
           /\ r.categoryBalances = categoryBalances

\* C5: the one schedule MonthlyDay 31 with nextDate 2024-01-31, processed
\* up to 2024-04-30, posts exactly four transactions, dated 2024-01-31,
\* 2024-02-29, 2024-03-31 and 2024-04-30, and ends with nextDate after
\* 2024-04-30.
C5_MonthlyDay31FourOccurrences ==
    ( /\ last.op = "processSchedulesUpTo"
      /\ last.upTo = Date(2024, 4, 30)
      /\ Len(last.pre.schedules) = 1
      /\ last.pre.schedules[1].type = "MonthlyDay"
      /\ last.pre.schedules[1].param = 31
      /\ last.pre.schedules[1].nextDate = Date(2024, 1, 31) )
    => /\ Len(Posted) = 4
       /\ Posted[1].date = Date(2024, 1, 31)
       /\ Posted[2].date = Date(2024, 2, 29)
       /\ Posted[3].date = Date(2024, 3, 31)
       /\ Posted[4].date = Date(2024, 4, 30)
       /\ schedules[1].nextDate > Date(2024, 4, 30)

\* C6: with the single transaction {2024-01-01, +100, Other} and a monthly
\* rule for Other of rate 1 with startDate and lastAppliedDate 2024-01-01,
\* applyInterestUpTo(2024-03-01) posts exactly two interest transactions,
\* dated 2024-02-01 and 2024-03-01, the second computed on the balance
\* that includes the first (1.00, then 1.01).
C6_TwoInterestPostings ==
    ( /\ last.op = "applyInterestUpTo"
      /\ last.upTo = Date(2024, 3, 1)
      /\ Len(last.pre.txs) = 1
      /\ last.pre.txs[1].date = Date(2024, 1, 1)
      /\ last.pre.txs[1].amount = 10000
      /\ last.pre.txs[1].category = Str_Other
      /\ DOMAIN last.pre.interestMap = {Key_other}
      /\ last.pre.interestMap[Key_other].monthly
      /\ last.pre.interestMap[Key_other].ratePct = 100
      /\ last.pre.interestMap[Key_other].startDate = Date(2024, 1, 1)
      /\ last.pre.interestMap[Key_other].lastAppliedDate = Date(2024, 1, 1) )
    => /\ Len(Posted) = 2
       /\ Posted[1].date = Date(2024, 2, 1)
       /\ Posted[1].amount = 100
       /\ Posted[2].date = Date(2024, 3, 1)
       /\ Posted[2].amount = 101

\* C7: a schedule whose date does not advance stops firing in the call, so
\* the one schedule of an account never posts two transactions for the
\* same occurrence date (an auto-allocated occurrence posts one per
\* category, so the pair of date and category never repeats).
C7_NoOccurrencePostedTwice ==
    (last.op = "processSchedulesUpTo" /\ Len(last.pre.schedules) = 1)
        => \A i, j \in 1..Len(Posted) :
              (Posted[i].date = Posted[j].date /\ Posted[i].category = Posted[j].category)
                  => i = j

\* C8: every interest transaction that applyInterestUpTo(targetDate) of
\* finance_v2_3.cpp posts is dated on or before targetDate.
C8_InterestNotAfterTarget ==
    last.op = "applyInterestUpTo" =>
        \A i \in 1..Len(last.posted) : last.posted[i].date <= last.upTo

\* C9: for a positive amount and an allocation map of positive total,
\* allocateAmount posts one transaction per allocation entry; the posted
\* amounts sum to the amount (exactly when every share is exact, within
\* half a unit of resolution per entry otherwise) and the balance grows by
\* the sum posted.
C9_AllocationConserves ==
    (last.op = "allocateAmount" /\ last.amount > 0 /\ TotalPct(last.pre) > 0)
        => LET pct == last.pre.allocationPct
               n == Cardinality(DOMAIN pct)
               sum == SumSeq(Amounts(Posted))
               diff == IF sum >= last.amount THEN sum - last.amount ELSE last.amount - sum
           IN /\ Len(Posted) = n
              /\ 2 * diff <= n
              /\ (\A k \in DOMAIN pct : (last.amount * pct[k]) % TotalPct(last.pre) = 0)
                     => sum = last.amount
              /\ balance - last.pre.balance = sum

\* An amount of 100.00 split over three entries of 10 percent each.
C9_Witness ==
    /\ last.op = "allocateAmount"
    /\ last.amount = 10000
    /\ DOMAIN last.pre.allocationPct = {normalizeKey(k) : k \in DOMAIN AllocThirds}
    /\ Len(Posted) = 3
    /\ balance - last.pre.balance = 9999

\* C10: displayNames, categoryBalances and allocationPct have the same key
\* set after any sequence of operations.
C10_CategoryMapsShareKeys ==
    /\ DOMAIN displayNames = DOMAIN categoryBalances
    /\ DOMAIN categoryBalances = DOMAIN allocationPct

\* The lines of a store after its TXS line.
TxsSection(f) ==
    IF f = NoFile \/ ~(\E i \in 1..Len(f) : f[i] = Str_TXS) THEN <<>>
    ELSE LET t == CHOOSE i \in 1..Len(f) : f[i] = Str_TXS /\ \A j \in 1..(i - 1) : f[j] # Str_TXS
         IN SubSeq(f, t + 1, Len(f))

\* A transaction line as the claims read it: exactly four fields, a date
\* and an amount that convert.
FourFieldTxLine(line) ==
    LET Fields(parts) ==
            /\ Len(parts) = 4
            /\ tryParseDate(parts[1]).ok
            /\ stod(parts[2]).ok
    IN Fields(splitEscaped(line))

\* C11: after loadFromFile of a store whose TXS section holds lines of a
\* field count other than 4, those lines made no transaction, every line
\* of four fields that converts made one, in order, and the balance is
\* the sum of the amounts of the four-field lines only.
C11_MalformedTxLineSkipped ==
    ( /\ last.op = "loadFromFile"
      /\ last.ok
      /\ \E i \in 1..Len(TxsSection(file)) : Len(splitEscaped(TxsSection(file)[i])) # 4 ) =>
        LET valid == SelectSeq(TxsSection(file), FourFieldTxLine)
            amountOf(line) == stod(splitEscaped(line)[2]).val
        IN /\ Len(txs) = Len(valid)
           /\ \A i \in 1..Len(valid) :
                 /\ i <= Len(txs)
                 /\ txs[i].date = tryParseDate(splitEscaped(valid[i])[1]).date
                 /\ txs[i].amount = amountOf(valid[i])
           /\ balance = SumSeq([i \in 1..Len(valid) |-> amountOf(valid[i])])

\* C12: from the start of saveToFile of finance_v2_3.cpp on, after each of
\* its steps and after a crash between any two of them, the fallback of a
\* failed rename included, the store at the save path is the whole
\* previous store or the whole new one, never a part and never missing.
C12_StoreAlwaysWhole ==
    LET Same(x, y) == IF x = NoFile \/ y = NoFile THEN x = NoFile /\ y = NoFile ELSE x = y
    IN last.op = "saveToFile" => (Same(file, last.prev) \/ Same(file, last.new))

\* C13: for every sequence of fields, fields holding '|', backslash or
\* newline included, splitEscaped of the escaped fields joined by '|'
\* returns the fields.
C13_SplitOfJoinedIsFields ==
    last.op = "splitEscaped" => last.parts = last.fields

\* C14: for every string s over '|', backslash, newline and ordinary
\* characters, unescapeLoaded(escapeForSave(s)) = s.
C14_UnescapeOfEscape ==
    last.op = "unescapeLoaded" => last.out = last.s

\* The string of '|', backslash and newline went through both functions.
C14_Witness ==
    /\ last.op = "unescapeLoaded"
    /\ last.s = <<"|", "\\", "\n">>
    /\ last.escaped = <<"\\", "|", "\\", "\\", "\\", "n">>
    /\ last.out = last.s

\* C15: processSchedulesUpTo posts nothing for a schedule whose parameter
\* is out of range (EveryXDays with param <= 0, MonthlyDay with param
\* outside 1..31) and changes none of its fields, nextDate included; the
\* other schedules are processed as they are without it.
C15_InvalidScheduleSkipped ==
    last.op = "processSchedulesUpTo" =>
        LET pre == last.pre
            others == processSchedulesUpTo(
                          [pre EXCEPT !.schedules = SelectSeq(pre.schedules, ValidSchedule)],
                          last.upTo)
        IN /\ Len(schedules) = Len(pre.schedules)
           /\ \A i \in 1..Len(pre.schedules) :
                 ~ValidSchedule(pre.schedules[i]) => schedules[i] = pre.schedules[i]
           /\ \A k \in 1..Len(Posted), i \in 1..Len(pre.schedules) :
                 ~ValidSchedule(pre.schedules[i])
                     => ~StartsWith(Posted[k].note, Str_Scheduled \o pre.schedules[i].note)
           /\ txs = others.txs
           /\ balance = others.balance
           /\ categoryBalances = others.categoryBalances
           /\ SelectSeq(schedules, ValidSchedule) = others.schedules

\* A schedule EveryXDays with param 0, due, next to a valid schedule that
\* fired.
C15_Witness ==
    /\ last.op = "processSchedulesUpTo"
    /\ Len(schedules) = 2
    /\ schedules[1].type = "EveryXDays"
    /\ schedules[1].param = 0
    /\ schedules[1].nextDate <= last.upTo
    /\ ValidSchedule(schedules[2])
    /\ Len(Posted) > 0
    /\ schedules[2].nextDate > last.pre.schedules[2].nextDate

\* C16: a call processSchedulesUpTo(d) posts, for a schedule EveryXDays
\* with param > 0, its due occurrences nextDate, nextDate + param, ... in
\* order, each once, and stops at the iteration cap when more are due,
\* leaving nextDate at the first occurrence not posted; the next call with
\* the same d goes on from there, so that repeated calls post every
\* occurrence <= d once, none skipped and none twice.  (Stated for the
\* accounts whose valid schedules are all of this kind; Due is the number
\* of occurrences <= d, From the number of transactions the schedules
\* before the i-th post.)
C16_CappedScheduleResumes ==
    ( /\ last.op = "processSchedulesUpTo"
      /\ \A i \in 1..Len(last.pre.schedules) :
            ValidSchedule(last.pre.schedules[i])
                => /\ last.pre.schedules[i].type = "EveryXDays"
                   /\ ~last.pre.schedules[i].autoAllocate ) =>
        LET pre == last.pre.schedules
            d == last.upTo
            Due(s) == IF ~ValidSchedule(s) \/ s.nextDate > d THEN 0
                      ELSE (d - s.nextDate) \div s.param + 1
            Capped(s, cap) == Min(Due(s), cap)
            From(i) == SumSeq([j \in 1..(i - 1) |-> Capped(pre[j], GuardLimit)])
            again == processSchedulesUpTo(Acc, d)
        IN /\ Len(Posted) = From(Len(pre) + 1)
           /\ \A i \in 1..Len(pre) :
                 /\ \A k \in 1..Capped(pre[i], GuardLimit) :
                       Posted[From(i) + k].date = pre[i].nextDate + (k - 1) * pre[i].param
                 /\ ValidSchedule(pre[i]) =>
                       /\ schedules[i].nextDate
                             = pre[i].nextDate + Capped(pre[i], GuardLimit) * pre[i].param
                       /\ again.schedules[i].nextDate
                             = pre[i].nextDate + Capped(pre[i], 2 * GuardLimit) * pre[i].param
           /\ Len(again.txs) - Len(last.pre.txs)
                 = SumSeq([j \in 1..Len(pre) |-> Capped(pre[j], 2 * GuardLimit)])

\* The schedule of every 10 days from 2024-01-01 has seven occurrences up
\* to 2024-03-01: a first call stopped at the cap, the second call posted
\* the seventh.
C16_Witness ==
    /\ last.op = "processSchedulesUpTo"
    /\ last.upTo = Date(2024, 3, 1)
    /\ Len(schedules) = 1
    /\ schedules[1].type = "EveryXDays"
    /\ schedules[1].param = 10
    /\ Len(last.pre.txs) = GuardLimit
    /\ last.pre.schedules[1].nextDate = Date(2024, 1, 1) + GuardLimit * 10
    /\ Len(txs) = 7
    /\ \A k \in 1..7 : txs[k].date = Date(2024, 1, 1) + (k - 1) * 10
    /\ schedules[1].nextDate > last.upTo

\* C17: for every date fromDate and every day in 1..31,
\* nextMonthlyOn(fromDate, day) is strictly later than fromDate, also when
\* day is beyond the length of fromDate's month and fromDate is the last
\* day of that month.
C17_NextMonthlyOnLater ==
    last.op = "nextMonthlyOn" => last.out > last.from

\* C18: over processSchedulesUpTo calls with any target dates in any
\* order, the nextDate of each schedule never decreases.
C18_NextDateNeverDecreases ==
    last.op = "processSchedulesUpTo" =>
        /\ Len(schedules) = Len(last.pre.schedules)
        /\ \A i \in 1..Len(schedules) :
              schedules[i].nextDate >= last.pre.schedules[i].nextDate

\* A call to 2024-04-30 followed by a call to the earlier date 2024-03-01:
\* the first moved nextDate past 2024-03-01 and the second left it there.
C18_Witness ==
    /\ last.op = "processSchedulesUpTo"
    /\ last.upTo = Date(2024, 3, 1)
    /\ Len(schedules) = 1
    /\ ValidSchedule(schedules[1])
    /\ Len(last.pre.txs) > 0
    /\ last.pre.schedules[1].nextDate > Date(2024, 3, 1)
    /\ schedules[1].nextDate = last.pre.schedules[1].nextDate

\* C19: processSchedulesUpTo and applyInterestUpTo end, with bounded
\* loops: the firing loop of a schedule runs at most the iteration cap
\* times in a call, also when its date never advances (a firing posts at
\* most one transaction per category, so the transactions of one note and
\* category number at most the cap for each schedule of that note), and
\* the month loop of an interest rule runs the months counted from its
\* last applied date to the target date, one transaction at most each.
C19_LoopsBounded ==
    /\ last.op = "processSchedulesUpTo" =>
          \A i \in 1..Len(last.pre.schedules), k \in 1..Len(Posted) :
              LET note == Str_Scheduled \o last.pre.schedules[i].note
                  same == { j \in 1..Len(last.pre.schedules) :
                               last.pre.schedules[j].note = last.pre.schedules[i].note }
                  fired == { j \in 1..Len(Posted) :
                                /\ StartsWith(Posted[j].note, note)
                                /\ Posted[j].category = Posted[k].category }
              IN Cardinality(fired) <= GuardLimit * Cardinality(same)
    /\ last.op = "applyInterestUpTo" =>
          LET rules == last.pre.interestMap
              keys == SortedKeys(DOMAIN rules)
              Months(ie) ==
                  IF ie.startDate > last.upTo THEN 0
                  ELSE Max(0, monthsBetweenInclusive(Max(ie.lastAppliedDate, ie.startDate),
                                                     last.upTo))
          IN Len(Posted) <= SumSeq([j \in 1..Len(keys) |-> Months(rules[keys[j]])])

\* The schedule MonthlyDay 31 resting on 2024-02-29: the call fired it
\* as many times as the cap allows and its date stayed.
C19_Witness ==
    /\ last.op = "processSchedulesUpTo"
    /\ Len(schedules) = 1
    /\ schedules[1].type = "MonthlyDay"
    /\ schedules[1].param = 31
    /\ last.pre.schedules[1].nextDate = Date(2024, 2, 29)
    /\ schedules[1].nextDate = Date(2024, 2, 29)
    /\ Len(Posted) = GuardLimit

\* C20: for every date and every n, positive, zero or negative,
\* addMonths(date, n) is the date n calendar months away: counted in
\* months since year 0 its month is date's plus n (the year rolls over in
\* both directions, the month is in 1..12) and its day of the month is
\* the smaller of date's and the length of the target month; in
\* particular addMonths(2024-01-31, 1) = 2024-02-29 and
\* addMonths(2023-01-31, 1) = 2023-02-28.
C20_AddMonths ==
    last.op = "addMonths" =>
        LET t == safeLocaltime(last.tp)
            r == safeLocaltime(last.out)
        IN /\ r.year * 12 + (r.mon - 1) = t.year * 12 + (t.mon - 1) + last.months
           /\ r.mon \in 1..12
           /\ r.mday = Min(t.mday, daysInMonth(r.year, r.mon))
           /\ (last.tp = Date(2024, 1, 31) /\ last.months = 1)
                  => last.out = Date(2024, 2, 29)
           /\ (last.tp = Date(2023, 1, 31) /\ last.months = 1)
                  => last.out = Date(2023, 2, 28)

\* 2024-03-31 minus thirteen months: the year rolls back twice and the
\* day is cut to the 28 days of February 2023.
C20_Witness ==
    /\ last.op = "addMonths"
    /\ last.tp = Date(2024, 3, 31)
    /\ last.months = -13
    /\ last.out = Date(2023, 2, 28)

\* C21: for all dates start and end, monthsBetweenInclusive(start, end) of
\* finance_v2_6.cpp is the number of apply points start,
\* addMonths(start, 1), addMonths(addMonths(start, 1), 1), ... that are
\* <= end, the value the iterating function of finance_v2_3.cpp returns,
\* and 0 when end < start.
C21_MonthsBetweenIsIterationCount ==
    last.op = "monthsBetweenInclusive" =>
        /\ last.out = last.iterated
        /\ last.end < last.start => last.out = 0

\* C22: after an applyInterestUpTo call that processed at least one month
\* for a rule, the rule's lastAppliedDate is on or after its startDate,
\* and a rule for which that holds keeps it through every later
\* applyInterestUpTo call.
C22_LastAppliedNotBeforeStart ==
    last.op = "applyInterestUpTo" =>
        \A k \in DOMAIN last.pre.interestMap :
            LET ie == last.pre.interestMap[k]
                processed ==
                    /\ ie.startDate <= last.upTo
                    /\ monthsBetweenInclusive(Max(ie.lastAppliedDate, ie.startDate),
                                              last.upTo) >= 1
            IN /\ k \in DOMAIN interestMap
               /\ interestMap[k].startDate = ie.startDate
               /\ (processed \/ ie.lastAppliedDate >= ie.startDate)
                      => interestMap[k].lastAppliedDate >= interestMap[k].startDate

\* A rule loaded with its last applied date before its start date went
\* through a call that processed months for it.
C22_Witness ==
    /\ last.op = "applyInterestUpTo"
    /\ Key_other \in DOMAIN last.pre.interestMap
    /\ last.pre.interestMap[Key_other].lastAppliedDate
          < last.pre.interestMap[Key_other].startDate
    /\ last.pre.interestMap[Key_other].startDate <= last.upTo
    /\ Len(Posted) > 0
    /\ interestMap[Key_other].lastAppliedDate >= interestMap[Key_other].startDate

\* C23: an applyInterestUpTo call that processes months >= 1 months for a
\* rule leaves the rule's lastAppliedDate equal to the apply date of the
\* last month it processed, addMonths(fromDate, months - 1).
C23_LastAppliedIsLastProcessed ==
    last.op = "applyInterestUpTo" =>
        \A k \in DOMAIN last.pre.interestMap :
            LET ie == last.pre.interestMap[k]
                fromDate == Max(ie.lastAppliedDate, ie.startDate)
                months == monthsBetweenInclusive(fromDate, last.upTo)
            IN (ie.startDate <= last.upTo /\ months >= 1)
                   => interestMap[k].lastAppliedDate = addMonths(fromDate, months - 1)

\* C24: the transaction log is append-only: addManualTransaction,
\* allocateAmount, processSchedulesUpTo and applyInterestUpTo, and every
\* other call but loadFromFile, leave each transaction logged before the
\* call unchanged at its position.
C24_LogAppendOnly ==
    last.op \in {"addManualTransaction", "allocateAmount", "processSchedulesUpTo",
                 "applyInterestUpTo", "setAllocation", "addSchedule", "setInterest",
                 "saveToFile"} =>
        /\ Len(txs) >= Len(last.pre.txs)
        /\ SubSeq(txs, 1, Len(last.pre.txs)) = last.pre.txs

\* A call posted to a log that already held transactions.
C24_Witness ==
    /\ last.op \in {"addManualTransaction", "allocateAmount", "processSchedulesUpTo",
                     "applyInterestUpTo"}
    /\ Len(last.pre.txs) >= 2
    /\ Len(Posted) >= 2
    /\ SubSeq(txs, 1, Len(last.pre.txs)) = last.pre.txs

\* The section header above line i of a store, <<>> when there is none.
SectionOf(f, i) ==
    LET Headers == {Str_SETTINGS, Str_INTERESTS, Str_ALLOCATIONS, Str_CATEGORIES,
                    Str_SCHEDULES, Str_TXS}
        above == {j \in 1..(i - 1) : f[j] \in Headers}
    IN IF above = {} \/ f[i] \in Headers THEN <<>>
       ELSE f[CHOOSE j \in above : \A h \in above : h <= j]

\* C25: after loadFromFile, a record of INTERESTS, SCHEDULES or TXS whose
\* date field tryParseDate rejects made no rule, no schedule and no
\* transaction.
C25_RejectedDateRecordSkipped ==
    (last.op = "loadFromFile" /\ last.ok) =>
        \A i \in 1..Len(file) :
            LET parts == splitEscaped(file[i])
                sec == SectionOf(file, i)
                Rejected(n) == Len(parts) >= n /\ ~tryParseDate(parts[n]).ok
            IN /\ (sec = Str_INTERESTS /\ Len(parts) >= 5 /\ (Rejected(4) \/ Rejected(5)))
                     => normalizeKey(parts[1]) \notin DOMAIN interestMap
               /\ (sec = Str_SCHEDULES /\ Len(parts) >= 7 /\ Rejected(5))
                     => \A j \in 1..Len(schedules) : schedules[j].note # parts[7]
               /\ (sec = Str_TXS /\ Len(parts) >= 4 /\ Rejected(1))
                     => \A j \in 1..Len(txs) : txs[j].note # parts[4]

\* C26: in an account that came from Account() by addManualTransaction,
\* allocateAmount, processSchedulesUpTo and applyInterestUpTo (nothing was
\* ever loaded: there is no store), the balance is the sum of the logged
\* amounts and the balance of every category key is the sum of the amounts
\* logged under a category of that key.
C26_BalancesAreLogSums ==
    file = NoFile =>
        /\ balance = SumSeq(Amounts(txs))
        /\ \A k \in DOMAIN categoryBalances :
              categoryBalances[k] = CategoryBalanceAt(txs, k, Date(2027, 12, 31))
        /\ \A i \in 1..Len(txs) : normalizeKey(txs[i].category) \in DOMAIN categoryBalances

\* An allocation or a schedule or interest posted several transactions to
\* an account that never was loaded.
C26_Witness ==
    /\ file = NoFile
    /\ last.op \in {"allocateAmount", "processSchedulesUpTo", "applyInterestUpTo"}
    /\ Len(Posted) >= 2
    /\ balance # 0
    /\ \E k \in DOMAIN categoryBalances : categoryBalances[k] # 0 /\ categoryBalances[k] # balance

C28_RestoreGivesSnapshotState ==
    last.op = "restoreSnapshot" =>
        /\ txs = last.at.txs
        /\ balance = last.at.balance
        /\ categoryBalances = last.at.categoryBalances
        /\ schedules = last.at.schedules
        /\ interestMap = last.at.interestMap

\* C29: every record line that saveToFile writes inside INTERESTS,
\* ALLOCATIONS, CATEGORIES, SCHEDULES or TXS is read by the loop of
\* loadFromFile as a record of its section: the line neither changes the
\* section nor is taken for the BALANCE line.
C29_RecordLinesStayRecords ==
    (last.op = "saveToFile" /\ file # NoFile) =>
        \A i \in 1..Len(file), d \in TodayDates :
            LET start == [a |-> Acc, sec |-> "None", savedBalance |-> 0,
                          hadSavedBalance |-> FALSE, i |-> 1]
                Read(st) ==
                    LET r == LoadLine(st, file[i], d)
                    IN r.sec = st.sec /\ ~r.hadSavedBalance
            IN SectionOf(file, i) \in {Str_INTERESTS, Str_ALLOCATIONS, Str_CATEGORIES,
                                       Str_SCHEDULES, Str_TXS}
                   => Read(LoadLine(start, SectionOf(file, i), d))

=============================================================================
